---- MODULE Spec2Model ----
(***************************************************************************)
(* A model of parts of rkt:                                                *)
(*   - the app status listing (rkt/run_prepared.go: AppsForPod, newApp,    *)
(*     appState, readExitCode), run against a supervisor that adds the     *)
(*     lifecycle markers while the listing probes them;                    *)
(*   - the chroot-safe symlink walk (EvaluateSymlinksInsideApp);           *)
(*   - the capability resolver (getAppCapabilities);                       *)
(*   - the nspawn argument builder (PodToNspawnArgs, appToNspawnArgs);     *)
(*   - the user and group resolution (parseUserGroup);                     *)
(*   - the executable lookup (findBinPath, lookupPathInsideApp);           *)
(*   - the ExecStart quoting (quoteExec, execEscape);                      *)
(*   - the file writers under a UID range (generateSysusers, writeEnvFile, *)
(*     generateDeviceAllows, shiftFiles);                                  *)
(*   - the run-prepared command (runRunPrepared).                          *)
(* Each part has its own specification; the variables of the other parts   *)
(* are held at their idle values.                                          *)
(***************************************************************************)
EXTENDS Integers, Sequences, FiniteSets, TLC

VARIABLES
    \* ---- status listing: the world ----
    manifest,      \* podManifest.Apps: the app names, in manifest order
    fs,            \* marker path -> file node
    podAfterRun,   \* the pod has left its run phase
    podGCTime,     \* the pod's garbage-collection mark time, ZeroTime if none
    appExit,       \* app -> <<>> or <<code>>: the status the supervisor writes
    \* ---- status listing: one AppsForPod call ----
    pc,            \* position of the call
    filter,        \* appName argument ("" = all apps)
    qi,            \* index of the manifest app of the current iteration
    app,           \* the App object under construction
    qerr,          \* the error appState returns ("" = nil)
    sawAfterRun,   \* what pod.AfterRun() returned in the deferred function
    apps,          \* the list AppsForPod builds
    \* ---- status listing: history ----
    began,         \* the app's state and the pod's mark time when appState began
    quiet,         \* no marker or pod change since appState began
    lastReported   \* app -> <<>> or <<state>>: last state successfully listed

stVars == <<manifest, fs, podAfterRun, podGCTime, appExit, pc, filter, qi, app,
            qerr, sawAfterRun, apps, began, quiet, lastReported>>

VARIABLES
    \* ---- symlink walk: the inputs ----
    tree,          \* host path (list of names) -> node: the filesystem
    wpath,         \* the path argument
    \* ---- symlink walk: one EvaluateSymlinksInsideApp call and its caller ----
    wpc,           \* position of the call
    link,          \* the accumulated path
    wi,            \* index of the component of the current iteration
    wsteps,        \* history: the iterations of the loop begun so far
    werr,          \* the error returned ("" = nil)
    wret,          \* the path returned
    mntAbsPath     \* the caller's filepath.Join(appRootfs, mntPath)

symVars == <<tree, wpath, wpc, link, wi, wsteps, werr, wret, mntAbsPath>>

VARIABLES
    \* ---- capability resolver: one getAppCapabilities call ----
    isolators,     \* the isolators argument
    cpc,           \* position of the call
    ci,            \* index of the isolator (or of the removed name) in turn
    capsToRetain,
    capsToRemove,
    caps,          \* the slice caps: [arr: backing array, len: length]
    cres           \* the result: [caps, err, panicked]

capVars == <<isolators, cpc, ci, capsToRetain, capsToRemove, caps, cres>>

VARIABLES
    \* ---- the pod manifest and the launch options ----
    podApps,       \* p.Manifest.Apps: the RuntimeApps, in manifest order
    podVolumes,    \* p.Manifest.Volumes
    disableCapabilities,   \* insecureOptions.DisableCapabilities
    \* ---- one PodToNspawnArgs call ----
    npc,           \* position of the call
    ai,            \* index of the app of the current iteration
    mi,            \* index of the mount of the current iteration
    args,          \* the args of PodToNspawnArgs
    aargs,         \* the args of appToNspawnArgs
    nres,          \* the result: [args, err]
    \* ---- PodToNspawnArgs: history ----
    resolved,      \* the mntPath of every bind argument built, in order
    entered        \* the indexes of the apps appToNspawnArgs was called for

podVars == <<podApps, podVolumes, disableCapabilities>>

nsVars == <<npc, ai, mi, args, aargs, nres, resolved, entered>>

VARIABLES
    \* ---- one parseUserGroup call ----
    ugEnv,         \* what each resolver of pkg/user answers for the app
    ugpc,          \* position of the call: [who, at]
    ugResolver,    \* [user, group]: the strategy of uidResolver, gidResolver
    ugres,         \* the result: [uid, gid, err]
    ugTried        \* history: the resolvers constructed, in order

ugVars == <<ugEnv, ugpc, ugResolver, ugres, ugTried>>

VARIABLES
    \* ---- one findBinPath call for a bare binary name ----
    binDirs,       \* what appSearchPaths returns
    binExecutable, \* the regular files of the app have an execute bit
    binpc,         \* position of the call
    appPathsArr,   \* the candidate directories of lookupPathInsideApp
    bi,            \* index of the candidate of the current iteration
    binRes         \* the result: [path, err]

binVars == <<binDirs, binExecutable, binpc, appPathsArr, bi, binRes>>

VARIABLES
    \* ---- one quoteExec call ----
    exec,          \* the argument vector
    qepc,          \* position of the call
    argi,          \* index i of the argument of the current iteration, from 0
    qexec,         \* the escaped arguments so far
    cmdline        \* the returned string

qeVars == <<exec, qepc, argi, qexec, cmdline>>

VARIABLES
    \* ---- the file writers under a UID range: generateSysusers, ----
    \* ---- writeEnvFile, generateDeviceAllows                    ----
    ofs,           \* path -> node with its owner: the files written to
    uidRange,      \* [Shift, Count]
    failing,       \* the system calls that fail, as <<call, path>>
    devVols,       \* generateDeviceAllows: vols, as the list the map is built from
    devMountPoints,\* generateDeviceAllows: mountPoints
    shfn,          \* the function called
    shpc,          \* position in it
    toShift,       \* filesToShift of the shiftFiles call
    shi,           \* index of the file of the current iteration of shiftFiles
    dmi,           \* index of the mount of the current iteration
    devAllow,      \* the entries collected so far
    shres,         \* what the call returned: [devAllow, err]
    shCreated,     \* history: the paths the call created
    shFailed,      \* history: a system call of the call failed
    invocation,    \* history: 1 for the first call, 2 for the one after it
    firstReturn    \* history: ofs and shres at the return of the first call

shVars == <<ofs, uidRange, failing, devVols, devMountPoints, shfn, shpc, toShift,
            shi, dmi, devAllow, shres, shCreated, shFailed, invocation,
            firstReturn>>

VARIABLES
    \* ---- one run of the run-prepared command ----
    rpEnv,         \* what the command finds: flags, pod, stores, host
    rppc,          \* position in runRunPrepared
    podState,      \* the state of the pod on disk
    rpExit         \* <<>> or the returned exit status

rpVars == <<rpEnv, rppc, podState, rpExit>>

\* The variables of the calls that use no other part.
restVars == <<ugVars, binVars, qeVars, shVars, rpVars>>

vars == <<stVars, symVars, capVars, podVars, nsVars, restVars>>

nonStatusVars == <<symVars, capVars, podVars, nsVars, restVars>>
nonSymlinkVars == <<stVars, capVars, podVars, nsVars, restVars>>
nonCapVars == <<stVars, symVars, podVars, nsVars, restVars>>
nonUgVars == <<stVars, symVars, capVars, podVars, nsVars, binVars, qeVars, shVars, rpVars>>
nonBinVars == <<stVars, capVars, podVars, nsVars, ugVars, qeVars, shVars, rpVars>>
nonQeVars == <<stVars, symVars, capVars, podVars, nsVars, ugVars, binVars, shVars, rpVars>>
nonRpVars == <<stVars, symVars, capVars, podVars, nsVars, ugVars, binVars, qeVars,
               shVars>>
nonShVars == <<stVars, symVars, capVars, podVars, nsVars, ugVars, binVars, qeVars, rpVars>>

(***************************************************************************)
(* Characters, decimal formatting and scanning.  A file's content and a    *)
(* string are sequences of one-character strings.                          *)
(***************************************************************************)
Digits == <<"0", "1", "2", "3", "4", "5", "6", "7", "8", "9">>

IsDigit(c) == \E i \in 1..10 : Digits[i] = c

DigitVal(c) == (CHOOSE i \in 1..10 : Digits[i] = c) - 1

\* The decimal digits of a natural number.
RECURSIVE FormatInt(_)
FormatInt(n) ==
    IF n < 10 THEN <<Digits[n + 1]>>
    ELSE FormatInt(n \div 10) \o <<Digits[(n % 10) + 1]>>

\* The value of a run of digits, most significant first.
RECURSIVE DigitsValue(_, _)
DigitsValue(s, acc) ==
    IF s = <<>> \/ ~IsDigit(Head(s)) THEN acc
    ELSE DigitsValue(Tail(s), acc * 10 + DigitVal(Head(s)))

RECURSIVE SkipSpaces(_)
SkipSpaces(s) ==
    IF s # <<>> /\ Head(s) = " " THEN SkipSpaces(Tail(s)) ELSE s

\* A scanner that stops after the first digit.
ScanIntOneDigit(data) ==
    LET s    == SkipSpaces(data)
        neg  == s # <<>> /\ Head(s) = "-"
        body == IF s # <<>> /\ Head(s) \in {"-", "+"} THEN Tail(s) ELSE s
    IN  IF s = <<>> THEN [ok |-> FALSE, val |-> -1]
        ELSE IF Head(s) = "\n" THEN [ok |-> FALSE, val |-> -1]
        ELSE IF body = <<>> \/ ~IsDigit(Head(body)) THEN [ok |-> FALSE, val |-> -1]
        ELSE [ok |-> TRUE,
              val |-> IF neg THEN 0 - DigitVal(Head(body)) ELSE DigitVal(Head(body))]

\* fmt.Sscanf(string(b), "%d", &exitCode): leading blanks are skipped, a
\* newline or the end of input before the number is an error, then an optional
\* sign and at least one digit; what follows the digits is left unread.
ScanInt(data) ==
    LET s    == SkipSpaces(data)
        neg  == s # <<>> /\ Head(s) = "-"
        body == IF s # <<>> /\ Head(s) \in {"-", "+"} THEN Tail(s) ELSE s
    IN  IF s = <<>> THEN [ok |-> FALSE, val |-> -1]
        ELSE IF Head(s) = "\n" THEN [ok |-> FALSE, val |-> -1]
        ELSE IF body = <<>> \/ ~IsDigit(Head(body)) THEN [ok |-> FALSE, val |-> -1]
        ELSE [ok |-> TRUE,
              val |-> IF neg THEN 0 - DigitsValue(body, 0) ELSE DigitsValue(body, 0)]

(***************************************************************************)
(* The status listing: manifest, marker paths, pod.                        *)
(***************************************************************************)
\* The app names a pod manifest may use.
AppNames == {"web", "db"}

\* The exit statuses an app may end with.
ExitCodes == {0, 7, 42}

AppStateUnknown == "unknown"
AppStateCreated == "created"
AppStateRunning == "running"
AppStateExited  == "exited"

appInfoDir(a)     == <<"appsinfo", a>>
appStartedFile(a) == <<"rkt/status", a, "-started">>
appExitedFile(a)  == <<"rkt/status", a>>

MarkerPaths ==
    {appInfoDir(a) : a \in AppNames} \cup {appStartedFile(a) : a \in AppNames}
        \cup {appExitedFile(a) : a \in AppNames}

\* Times are tokens: the zero time, the time a path was created or written,
\* the time the pod was marked for garbage collection.
ZeroTime == <<>>
GCMarkTime == <<"gc-marked">>
ModTime(p, data) == <<"mtime">> \o p \o <<IF data = <<>> THEN "created" ELSE "written">>

NoFile == [exists |-> FALSE, mtime |-> ZeroTime, data |-> <<>>]

InManifest(a) == \E i \in 1..Len(manifest) : manifest[i] = a

\* pod.AfterRun() and pod.GCMarkedTime() as appState calls them.
AfterRun == podAfterRun
GCMarkedTime == podGCTime

\* The lifecycle state the markers and the pod stand for.
TrueState(a) ==
    IF fs[appExitedFile(a)].exists \/ podAfterRun THEN AppStateExited
    ELSE IF fs[appStartedFile(a)].exists THEN AppStateRunning
    ELSE IF fs[appInfoDir(a)].exists THEN AppStateCreated
    ELSE AppStateUnknown

Rank(s) ==
    CASE s = AppStateUnknown -> 0
      [] s = AppStateCreated -> 1
      [] s = AppStateRunning -> 2
      [] s = AppStateExited  -> 3

NoApp == [Name |-> "", State |-> AppStateUnknown, CreatedAt |-> <<>>,
          StartedAt |-> <<>>, FinishedAt |-> <<>>, ExitCode |-> <<>>,
          Mounts |-> <<>>]

NoBegan == [state |-> AppStateUnknown, gc |-> ZeroTime]

\* A pod that was just prepared: no marker yet, no call in progress.
StInit ==
    /\ manifest = <<"web">>
    /\ fs = [p \in MarkerPaths |-> NoFile]
    /\ podAfterRun = FALSE
    /\ podGCTime = ZeroTime
    /\ appExit = [a \in AppNames |-> <<>>]
    /\ pc = "idle"
    /\ filter = ""
    /\ qi = 1
    /\ app = NoApp
    /\ qerr = ""
    /\ sawAfterRun = FALSE
    /\ apps = <<>>
    /\ began = NoBegan
    /\ quiet = FALSE
    /\ lastReported = [a \in AppNames |-> <<>>]

(***************************************************************************)
(* The supervisor and the pod: markers are only ever added, in the order   *)
(* app-info directory, started marker, exit-status marker; the exit-status *)
(* marker is created and then written.                                     *)
(***************************************************************************)
Touch(p, data) ==
    /\ fs' = [fs EXCEPT ![p] = [exists |-> TRUE, mtime |-> ModTime(p, data),
                                data |-> data]]
    /\ quiet' = FALSE

queryVars == <<pc, filter, qi, app, qerr, sawAfterRun, apps, began, lastReported>>

CreateAppInfoDir(a) ==
    /\ InManifest(a)
    /\ ~podAfterRun
    /\ ~fs[appInfoDir(a)].exists
    /\ Touch(appInfoDir(a), <<>>)
    /\ UNCHANGED <<manifest, podAfterRun, podGCTime, appExit, queryVars>>
    /\ UNCHANGED nonStatusVars

WriteStarted(a) ==
    /\ ~podAfterRun
    /\ fs[appInfoDir(a)].exists
    /\ ~fs[appStartedFile(a)].exists
    /\ Touch(appStartedFile(a), <<>>)
    /\ UNCHANGED <<manifest, podAfterRun, podGCTime, appExit, queryVars>>
    /\ UNCHANGED nonStatusVars

\* The app ends with status c and the status file is opened for writing.
CreateExited(a, c) ==
    /\ ~podAfterRun
    /\ fs[appStartedFile(a)].exists
    /\ ~fs[appExitedFile(a)].exists
    /\ Touch(appExitedFile(a), <<>>)
    /\ appExit' = [appExit EXCEPT ![a] = <<c>>]
    /\ UNCHANGED <<manifest, podAfterRun, podGCTime, queryVars>>
    /\ UNCHANGED nonStatusVars

\* The decimal status and a newline are written to the open status file.
WriteExited(a) ==
    /\ fs[appExitedFile(a)].exists
    /\ fs[appExitedFile(a)].data = <<>>
    /\ Touch(appExitedFile(a), FormatInt(appExit[a][1]) \o <<"\n">>)
    /\ UNCHANGED <<manifest, podAfterRun, podGCTime, appExit, queryVars>>
    /\ UNCHANGED nonStatusVars

\* The pod leaves its run phase (cleanly or killed).
PodExit ==
    /\ ~podAfterRun
    /\ podAfterRun' = TRUE
    /\ quiet' = FALSE
    /\ UNCHANGED <<manifest, fs, podGCTime, appExit, queryVars>>
    /\ UNCHANGED nonStatusVars

\* The pod is marked for garbage collection.
PodGCMark ==
    /\ podAfterRun
    /\ podGCTime = ZeroTime
    /\ podGCTime' = GCMarkTime
    /\ quiet' = FALSE
    /\ UNCHANGED <<manifest, fs, podAfterRun, appExit, queryVars>>
    /\ UNCHANGED nonStatusVars

worldVars == <<manifest, fs, podAfterRun, podGCTime, appExit>>

(***************************************************************************)
(* AppsForPod, newApp, appState, readExitCode: one action per probe.       *)
(***************************************************************************)
\* AppsForPod(uuid, dataDir, appName) is called.
AppsForPodCall(f) ==
    /\ pc = "idle"
    /\ pc' = "loop"
    /\ filter' = f
    /\ qi' = 1
    /\ apps' = <<>>
    /\ UNCHANGED <<worldVars, app, qerr, sawAfterRun, began, quiet, lastReported>>
    /\ UNCHANGED nonStatusVars

\* ra.App.MountPoints of the app called name (none if the pod manifest
\* gives no detail of the app).
RECURSIVE MountPointsOf(_, _)
MountPointsOf(ras, name) ==
    IF ras = <<>> THEN <<>>
    ELSE IF Head(ras).Name = name THEN Head(ras).MountPoints
    ELSE MountPointsOf(Tail(ras), name)

\* for _, vol := range podManifest.Volumes: the host path and the read-only
\* flag of the mount mnt after the loop, readOnly being mnt.ReadOnly before.
RECURSIVE FindVolume(_, _, _)
FindVolume(volumes, mnt, readOnly) ==
    IF volumes = <<>> THEN [hostPath |-> <<>>, readOnly |-> readOnly]
    ELSE LET vol == Head(volumes)
         IN  IF vol.Name # mnt.Name THEN FindVolume(Tail(volumes), mnt, readOnly)
             ELSE [hostPath |-> vol.Source,
                   readOnly |-> IF vol.ReadOnly # <<>> /\ ~readOnly
                                THEN vol.ReadOnly[1] ELSE readOnly]

\* newApp, "Generate mounts": the Mounts of the app, or the error of the
\* first mount point without a host path.
RECURSIVE newAppMounts(_, _, _)
newAppMounts(mountPoints, volumes, mounts) ==
    IF mountPoints = <<>> THEN [err |-> "", mounts |-> mounts]
    ELSE LET mnt == Head(mountPoints)
             v   == FindVolume(volumes, mnt, mnt.ReadOnly)
         IN  IF v.hostPath = <<>>
             THEN [err |-> "cannot find corresponded volume", mounts |-> <<>>]
             ELSE newAppMounts(Tail(mountPoints), volumes,
                               Append(mounts, [Name |-> mnt.Name,
                                               ContainerPath |-> mnt.Path,
                                               HostPath |-> v.hostPath,
                                               ReadOnly |-> v.readOnly]))

\* A listing that is emptied when an app fails.
AppsAfterFailureNone(list) == <<>>

\* apps after the continue that follows a failed newApp.
AppsAfterFailure(list) == list

\* for _, ra := range podManifest.Apps: the filter, then newApp up to the
\* first line of appState.
LoopNext ==
    /\ pc = "loop"
    /\ IF qi > Len(manifest)
       THEN /\ pc' = "done"
            /\ UNCHANGED <<qi, app, qerr, sawAfterRun, began, quiet, apps>>
       ELSE IF filter # "" /\ filter # manifest[qi]
       THEN /\ qi' = qi + 1
            /\ UNCHANGED <<pc, app, qerr, sawAfterRun, began, quiet, apps>>
       ELSE IF newAppMounts(MountPointsOf(podApps, manifest[qi]), podVolumes,
                            <<>>).err # ""
       THEN /\ qi' = qi + 1
            /\ apps' = AppsAfterFailure(apps)
            /\ UNCHANGED <<pc, app, qerr, sawAfterRun, began, quiet>>
       ELSE /\ app' = [NoApp EXCEPT
                          !.Name = manifest[qi],
                          !.State = AppStateUnknown,
                          !.Mounts = newAppMounts(MountPointsOf(podApps, manifest[qi]),
                                                  podVolumes, <<>>).mounts]
            /\ UNCHANGED apps
            /\ qerr' = ""
            /\ sawAfterRun' = FALSE
            /\ began' = [state |-> TrueState(manifest[qi]), gc |-> podGCTime]
            /\ quiet' = TRUE
            /\ pc' = "statInfo"
            /\ UNCHANGED qi
    /\ UNCHANGED <<worldVars, filter, lastReported>>
    /\ UNCHANGED nonStatusVars

\* The App after a successful stat of the app-info directory.
AppCreated(ap, fi) ==
    [ap EXCEPT !.State = AppStateCreated, !.CreatedAt = <<fi.mtime>>]

\* A stat of the started marker that keeps no time.
AppStartedNoTime(ap, fi) ==
    [ap EXCEPT !.State = AppStateRunning]

\* The App after a successful stat of the started marker.
AppStarted(ap, fi) ==
    [ap EXCEPT !.State = AppStateRunning, !.StartedAt = <<fi.mtime>>]

\* A stat of the exit-status marker that records the wrong state.
AppExitedWrongState(ap, fi) ==
    [ap EXCEPT !.State = AppStateCreated, !.FinishedAt = <<fi.mtime>>]

\* The App after a successful stat of the exit-status marker.
AppExited(ap, fi) ==
    [ap EXCEPT !.State = AppStateExited, !.FinishedAt = <<fi.mtime>>]

\* fi, err := os.Stat(appInfoDir)
StatInfoDir ==
    /\ pc = "statInfo"
    /\ LET fi == fs[appInfoDir(app.Name)]
       IN  IF ~fi.exists
           THEN pc' = "deferred" /\ UNCHANGED app
           ELSE pc' = "statStarted" /\ app' = AppCreated(app, fi)
    /\ UNCHANGED <<worldVars, filter, qi, qerr, sawAfterRun, apps, began, quiet,
                   lastReported>>
    /\ UNCHANGED nonStatusVars

\* fi, err = os.Stat(appStartedFile)
StatStartedFile ==
    /\ pc = "statStarted"
    /\ LET fi == fs[appStartedFile(app.Name)]
       IN  IF ~fi.exists
           THEN pc' = "deferred" /\ UNCHANGED app
           ELSE pc' = "statExited" /\ app' = AppStarted(app, fi)
    /\ UNCHANGED <<worldVars, filter, qi, qerr, sawAfterRun, apps, began, quiet,
                   lastReported>>
    /\ UNCHANGED nonStatusVars

\* fi, err = os.Stat(appExitedFile)
StatExitedFile ==
    /\ pc = "statExited"
    /\ LET fi == fs[appExitedFile(app.Name)]
       IN  IF ~fi.exists
           THEN pc' = "deferred" /\ UNCHANGED app
           ELSE pc' = "readExit" /\ app' = AppExited(app, fi)
    /\ UNCHANGED <<worldVars, filter, qi, qerr, sawAfterRun, apps, began, quiet,
                   lastReported>>
    /\ UNCHANGED nonStatusVars

\* readExitCode(path): the file is read and scanned as it is at this moment.
readExitCode(path) == ScanInt(fs[path].data)

\* exitCode, err := readExitCode(appExitedFile)
ReadExit ==
    /\ pc = "readExit"
    /\ LET r == readExitCode(appExitedFile(app.Name))
       IN  IF r.ok
           THEN app' = [app EXCEPT !.ExitCode = <<r.val>>] /\ UNCHANGED qerr
           ELSE qerr' = "cannot read exit code" /\ UNCHANGED app
    /\ pc' = "deferred"
    /\ UNCHANGED <<worldVars, filter, qi, sawAfterRun, apps, began, quiet,
                   lastReported>>
    /\ UNCHANGED nonStatusVars

\* A deferred function that overrides only an app still in state unknown.
MustForceExitedOnlyUnknown(ap, afterRun) ==
    afterRun /\ ap.State = AppStateUnknown

\* The deferred function's test: if pod.AfterRun() { if app.State != exited
MustForceExited(ap, afterRun) ==
    afterRun /\ ap.State # AppStateExited

\* The deferred function, up to the call of pod.GCMarkedTime().
Deferred ==
    /\ pc = "deferred"
    /\ sawAfterRun' = AfterRun
    /\ IF MustForceExited(app, AfterRun)
       THEN app' = [app EXCEPT !.State = AppStateExited] /\ pc' = "gcTime"
       ELSE pc' = "ret" /\ UNCHANGED app
    /\ UNCHANGED <<worldVars, filter, qi, qerr, apps, began, quiet, lastReported>>
    /\ UNCHANGED nonStatusVars

\* t, err := pod.GCMarkedTime(); if !t.IsZero() { app.FinishedAt = &finishedAt }
DeferredGCTime ==
    /\ pc = "gcTime"
    /\ LET t == GCMarkedTime
       IN  IF t # ZeroTime
           THEN app' = [app EXCEPT !.FinishedAt = <<t>>]
           ELSE UNCHANGED app
    /\ pc' = "ret"
    /\ UNCHANGED <<worldVars, filter, qi, qerr, sawAfterRun, apps, began, quiet,
                   lastReported>>
    /\ UNCHANGED nonStatusVars

\* appState and newApp return to the loop of AppsForPod: an app whose state
\* query failed is skipped, any other is appended.  The locals of the call
\* are gone.
NewAppReturn ==
    /\ pc = "ret"
    /\ IF qerr # ""
       THEN apps' = AppsAfterFailure(apps) /\ UNCHANGED lastReported
       ELSE /\ apps' = Append(apps, app)
            /\ lastReported' = [lastReported EXCEPT ![app.Name] = <<app.State>>]
    /\ qi' = qi + 1
    /\ pc' = "loop"
    /\ app' = NoApp
    /\ qerr' = ""
    /\ sawAfterRun' = FALSE
    /\ began' = NoBegan
    /\ quiet' = FALSE
    /\ UNCHANGED <<worldVars, filter>>
    /\ UNCHANGED nonStatusVars

\* return apps, nil
AppsForPodReturn ==
    /\ pc = "done"
    /\ pc' = "idle"
    /\ filter' = ""
    /\ qi' = 1
    /\ apps' = <<>>
    /\ UNCHANGED <<worldVars, app, qerr, sawAfterRun, began, quiet, lastReported>>
    /\ UNCHANGED nonStatusVars

StNext ==
    \/ \E a \in AppNames : CreateAppInfoDir(a)
    \/ \E a \in AppNames : WriteStarted(a)
    \/ \E a \in AppNames, c \in ExitCodes : CreateExited(a, c)
    \/ \E a \in AppNames : WriteExited(a)
    \/ PodExit
    \/ PodGCMark
    \/ \E f \in {""} \cup AppNames : AppsForPodCall(f)
    \/ LoopNext
    \/ StatInfoDir
    \/ StatStartedFile
    \/ StatExitedFile
    \/ ReadExit
    \/ Deferred
    \/ DeferredGCTime
    \/ NewAppReturn
    \/ AppsForPodReturn

\* No symlink walk in progress.
SymIdle ==
    /\ tree = <<>>
    /\ wpath = <<>>
    /\ wpc = "off"
    /\ link = <<>>
    /\ wi = 0
    /\ wsteps = 0
    /\ werr = ""
    /\ wret = <<>>
    /\ mntAbsPath = <<>>

\* No capability resolution in progress.
CapIdle ==
    /\ isolators = <<>>
    /\ cpc = "off"
    /\ ci = 0
    /\ capsToRetain = <<>>
    /\ capsToRemove = <<>>
    /\ caps = [arr |-> <<>>, len |-> 0]
    /\ cres = [caps |-> <<>>, err |-> "", panicked |-> FALSE]

\* No pod manifest.
PodIdle ==
    /\ podApps = <<>>
    /\ podVolumes = <<>>
    /\ disableCapabilities = FALSE

\* No PodToNspawnArgs call in progress.
NsIdle ==
    /\ npc = "off"
    /\ ai = 0
    /\ mi = 0
    /\ args = <<>>
    /\ aargs = <<>>
    /\ nres = [args |-> <<>>, err |-> ""]
    /\ resolved = <<>>
    /\ entered = <<>>

\* No parseUserGroup call in progress.
UgIdle ==
    /\ ugEnv = <<>>
    /\ ugpc = [who |-> "", at |-> "off"]
    /\ ugResolver = [user |-> "", group |-> ""]
    /\ ugres = [uid |-> 0, gid |-> 0, err |-> <<>>]
    /\ ugTried = <<>>

\* No findBinPath call in progress.
BinIdle ==
    /\ binDirs = <<>>
    /\ binExecutable = FALSE
    /\ binpc = "off"
    /\ appPathsArr = <<>>
    /\ bi = 0
    /\ binRes = [path |-> <<>>, err |-> <<>>]

\* No quoteExec call in progress.
QeIdle ==
    /\ exec = <<>>
    /\ qepc = "off"
    /\ argi = 0
    /\ qexec = <<>>
    /\ cmdline = <<>>

\* No file writer running.
ShIdle ==
    /\ ofs = <<>>
    /\ uidRange = [Shift |-> 0, Count |-> 0]
    /\ failing = {}
    /\ devVols = <<>>
    /\ devMountPoints = <<>>
    /\ shfn = ""
    /\ shpc = "off"
    /\ toShift = <<>>
    /\ shi = 0
    /\ dmi = 0
    /\ devAllow = <<>>
    /\ shres = [devAllow |-> <<>>, err |-> ""]
    /\ shCreated = {}
    /\ shFailed = FALSE
    /\ invocation = 0
    /\ firstReturn = <<>>

\* No run-prepared command running.
RpIdle ==
    /\ rpEnv = <<>>
    /\ rppc = "off"
    /\ podState = ""
    /\ rpExit = <<>>

\* Nothing but the part under study is in use.
RestIdle == UgIdle /\ BinIdle /\ QeIdle /\ ShIdle /\ RpIdle

\* No status listing in progress, no pod.
StIdle ==
    /\ manifest = <<>>
    /\ fs = <<>>
    /\ podAfterRun = FALSE
    /\ podGCTime = ZeroTime
    /\ appExit = <<>>
    /\ pc = "off"
    /\ filter = ""
    /\ qi = 0
    /\ app = NoApp
    /\ qerr = ""
    /\ sawAfterRun = FALSE
    /\ apps = <<>>
    /\ began = NoBegan
    /\ quiet = FALSE
    /\ lastReported = <<>>

StatusInit == StInit /\ SymIdle /\ CapIdle /\ PodIdle /\ NsIdle /\ RestIdle

SpecStatus == StatusInit /\ [][StNext]_vars

(***************************************************************************)
(* Properties of the status listing.                                       *)
(***************************************************************************)
InfoExists(a)    == fs[appInfoDir(a)].exists
StartedExists(a) == fs[appStartedFile(a)].exists
ExitedExists(a)  == fs[appExitedFile(a)].exists

\* The exit-status marker holds the decimal status the supervisor stored.
ExitedHolds(a, c) == fs[appExitedFile(a)].data = FormatInt(c) \o <<"\n">>

\* C1: when appState returns for a pod that has not passed its run phase,
\* and no marker changed while it ran, it reports unknown if the app-info
\* directory is absent, created if only the app-info directory exists,
\* running if the started marker exists too and the exit-status marker does
\* not, and exited with the stored integer as exit code if all three exist
\* and the content is a decimal status.
C1_AppStateFollowsMarkers ==
    (pc = "ret" /\ quiet /\ ~podAfterRun) =>
        LET a == app.Name
        IN  /\ ~InfoExists(a) => (qerr = "" /\ app.State = AppStateUnknown)
            /\ (InfoExists(a) /\ ~StartedExists(a) /\ ~ExitedExists(a))
                  => (qerr = "" /\ app.State = AppStateCreated)
            /\ (InfoExists(a) /\ StartedExists(a) /\ ~ExitedExists(a))
                  => (qerr = "" /\ app.State = AppStateRunning)
            /\ \A c \in ExitCodes :
                  (InfoExists(a) /\ StartedExists(a) /\ ExitedExists(a)
                     /\ ExitedHolds(a, c))
                  => (qerr = "" /\ app.State = AppStateExited
                        /\ app.ExitCode = <<c>>)

\* C1 witness: a quiet query of a running pod returns exited with code 42.
C1_Witness ==
    /\ pc = "ret" /\ quiet /\ ~podAfterRun
    /\ InfoExists(app.Name) /\ StartedExists(app.Name)
    /\ ExitedHolds(app.Name, 42)
    /\ app.State = AppStateExited /\ app.ExitCode = <<42>>

\* C2: when appState returns, the deferred function saw the pod after its
\* run phase and the exit-status marker was never written, the app is
\* reported exited with no exit code and no error; FinishedAt is the pod's
\* garbage-collection mark time or absent: it is the mark time if that time
\* was available when the query began and absent if it still is not.
C2_ForcedExitedAfterRun ==
    (pc = "ret" /\ sawAfterRun /\ ~ExitedExists(app.Name)) =>
        /\ qerr = ""
        /\ app.State = AppStateExited
        /\ app.ExitCode = <<>>
        /\ app.FinishedAt \in {<<>>, <<GCMarkTime>>}
        /\ began.gc # ZeroTime => app.FinishedAt = <<began.gc>>
        /\ podGCTime = ZeroTime => app.FinishedAt = <<>>

\* C2 witness: the markers alone say running, the pod was killed and marked,
\* and the app is reported exited with the mark time as finish time.
C2_Witness ==
    /\ pc = "ret" /\ sawAfterRun /\ ~ExitedExists(app.Name)
    /\ StartedExists(app.Name)
    /\ app.State = AppStateExited /\ app.ExitCode = <<>>
    /\ app.StartedAt # <<>>
    /\ app.FinishedAt = <<GCMarkTime>>

\* C3: from one successful listing of an app to the next, the reported
\* state never moves backwards in unknown < created < running < exited (so
\* once exited is reported, every later listing reports exited).
C3_ReportedStateNeverRegresses ==
    [][\A a \in AppNames :
          lastReported[a] # <<>> =>
              /\ lastReported'[a] # <<>>
              /\ Rank(lastReported'[a][1]) >= Rank(lastReported[a][1])]_vars

\* C3 witness: an app last listed as running is about to be listed as exited.
C3_Witness ==
    /\ pc = "ret" /\ qerr = ""
    /\ lastReported[app.Name] = <<AppStateRunning>>
    /\ app.State = AppStateExited

\* C4: a state query whose probes interleave with the supervisor never
\* fails and never drops the app from the listing, and it reports a state
\* no less advanced than the app's true state when it began and no more
\* advanced than the true state when it ends.
C4_QueryToleratesInterleaving ==
    /\ pc = "ret" =>
          /\ qerr = ""
          /\ Rank(began.state) <= Rank(app.State)
          /\ Rank(app.State) <= Rank(TrueState(app.Name))
    /\ pc = "done" =>
          \A i \in 1..Len(manifest) :
              (filter = "" \/ filter = manifest[i]) =>
                  \E j \in 1..Len(apps) : apps[j].Name = manifest[i]

(***************************************************************************)
(* Strings and paths: strings.Split, strings.HasPrefix, strings.TrimPrefix,*)
(* filepath.IsAbs, filepath.Clean, filepath.Join.                          *)
(***************************************************************************)
NonEmpty(e) == e # <<>>

HasPrefix(str, prefix) ==
    Len(str) >= Len(prefix) /\ SubSeq(str, 1, Len(prefix)) = prefix

TrimPrefix(str, prefix) ==
    IF HasPrefix(str, prefix) THEN SubSeq(str, Len(prefix) + 1, Len(str)) ELSE str

IsAbs(str) == str # <<>> /\ str[1] = "/"

\* strings.Split(str, "/"): the pieces between the slashes, empty ones kept.
RECURSIVE SplitFrom(_, _)
SplitFrom(str, piece) ==
    IF str = <<>> THEN <<piece>>
    ELSE IF Head(str) = "/" THEN <<piece>> \o SplitFrom(Tail(str), <<>>)
    ELSE SplitFrom(Tail(str), Append(piece, Head(str)))

Split(str) == SplitFrom(str, <<>>)

\* strings.Join(elems, "/")
RECURSIVE JoinSlash(_)
JoinSlash(elems) ==
    IF elems = <<>> THEN <<>>
    ELSE IF Len(elems) = 1 THEN elems[1]
    ELSE elems[1] \o <<"/">> \o JoinSlash(Tail(elems))

Dot    == <<".">>
DotDot == <<".", ".">>

\* filepath.Clean on the pieces of a path: empty and "." pieces go, ".."
\* removes the piece before it, is dropped at the root of a rooted path and
\* kept at the front of a relative one.
RECURSIVE CleanPieces(_, _, _)
CleanPieces(rooted, pieces, out) ==
    IF pieces = <<>> THEN out
    ELSE LET c == Head(pieces)
         IN  IF c = <<>> \/ c = Dot
             THEN CleanPieces(rooted, Tail(pieces), out)
             ELSE IF c = DotDot
             THEN IF out # <<>> /\ out[Len(out)] # DotDot
                  THEN CleanPieces(rooted, Tail(pieces), SubSeq(out, 1, Len(out) - 1))
                  ELSE IF rooted
                  THEN CleanPieces(rooted, Tail(pieces), out)
                  ELSE CleanPieces(rooted, Tail(pieces), Append(out, c))
             ELSE CleanPieces(rooted, Tail(pieces), Append(out, c))

Clean(str) ==
    IF str = <<>> THEN Dot
    ELSE LET rooted == str[1] = "/"
             body   == JoinSlash(CleanPieces(rooted, Split(str), <<>>))
         IN  IF rooted THEN <<"/">> \o body
             ELSE IF body = <<>> THEN Dot
             ELSE body

\* filepath.Join(elems...): empty elements are ignored, the rest is joined
\* with slashes and cleaned; no element left gives the empty string.
Join(elems) ==
    LET kept == SelectSeq(elems, NonEmpty)
    IN  IF kept = <<>> THEN <<>> ELSE Clean(JoinSlash(kept))

(***************************************************************************)
(* The filesystem the walk runs on, and os.Lstat as the kernel resolves    *)
(* it: every component but the last is followed, a symlink's absolute      *)
(* target from the host's root, a relative one from the symlink's          *)
(* directory.                                                              *)
(***************************************************************************)
\* The symlinks the kernel follows in one lookup before it gives up (ELOOP).
MaxSymlinkFollows == 3

nP  == <<"p">>
nR  == <<"r">>
nRX == <<"r", "x">>
nE  == <<"e">>
nD  == <<"d">>
nF  == <<"f">>
nS  == <<"s">>
nT  == <<"t">>

\* The app's root, /p/r; /p/rx lies next to it and /e is elsewhere on the host.
AppRootfs == <<"/", "p", "/", "r">>
RootNames == <<nP, nR>>

NoNode   == [kind |-> "none", target |-> <<>>]
DirNode  == [kind |-> "dir",  target |-> <<>>]
FileNode == [kind |-> "file", target |-> <<>>]
LinkNode(target) == [kind |-> "link", target |-> target]

\* The targets a symlink of the image may have.
Targets ==
    { <<"d">>,                                  \* d
      <<"t">>,                                  \* t
      <<"s">>,                                  \* s
      <<"/", "d">>,                             \* /d
      <<".", ".", "/", "r", "x">>,              \* ../rx
      <<".", ".", "/", ".", ".", "/", "e">>,    \* ../../e
      <<"/", ".", ".">> }                       \* /..

\* The path arguments tried.
WalkPaths ==
    { <<"/", "s">>,                                      \* /s
      <<"s", "/", "f">>,                                 \* s/f
      <<"/", "t">>,                                      \* /t
      <<"/", "d", "/", "f">>,                            \* /d/f
      <<"/", "d", "/", ".", ".", "/", "s">>,             \* /d/../s
      <<"/", "s", "/", "n">>,                            \* /s/n
      <<"/", "n", "/", ".", ".", "/", ".", ".">> }       \* /n/../..

TreePaths ==
    { <<nP>>, <<nP, nR>>, <<nP, nRX>>, <<nE>>, <<nP, nR, nD>>,
      <<nP, nR, nD, nF>>, <<nP, nR, nS>>, <<nP, nR, nT>> }

\* The filesystems tried: the app's root holds the directory d with the file
\* f (or neither) and the symlinks s and t (or not).
Trees ==
    { [q \in TreePaths |->
          IF q \in {<<nP>>, <<nP, nR>>, <<nP, nRX>>, <<nE>>} THEN DirNode
          ELSE IF q = <<nP, nR, nD>> THEN (IF hasD THEN DirNode ELSE NoNode)
          ELSE IF q = <<nP, nR, nD, nF>> THEN (IF hasD THEN FileNode ELSE NoNode)
          ELSE IF q = <<nP, nR, nS>> THEN s
          ELSE t] :
        hasD \in BOOLEAN,
        s \in {NoNode} \cup {LinkNode(g) : g \in Targets},
        t \in {NoNode} \cup {LinkNode(g) : g \in Targets} }

NodeAt(q) == IF q \in DOMAIN tree THEN tree[q] ELSE NoNode

\* The names of a path, without the empty pieces.
Names(str) == SelectSeq(Split(str), NonEmpty)

Parent(q) == IF q = <<>> THEN <<>> ELSE SubSeq(q, 1, Len(q) - 1)

\* The kernel's lookup of the names rest from the directory cur, the last
\* name not followed; followed counts the symlinks followed so far.
RECURSIVE KernelLookup(_, _, _)
KernelLookup(cur, rest, followed) ==
    IF rest = <<>> THEN DirNode
    ELSE LET c    == Head(rest)
             last == Len(rest) = 1
         IN  IF c = Dot THEN KernelLookup(cur, Tail(rest), followed)
             ELSE IF c = DotDot THEN KernelLookup(Parent(cur), Tail(rest), followed)
             ELSE LET n == NodeAt(Append(cur, c))
                  IN  IF n.kind = "none" THEN [kind |-> "ENOENT", target |-> <<>>]
                      ELSE IF last THEN n
                      ELSE IF n.kind = "file" THEN [kind |-> "ENOTDIR", target |-> <<>>]
                      ELSE IF n.kind = "dir"
                      THEN KernelLookup(Append(cur, c), Tail(rest), followed)
                      ELSE IF followed >= MaxSymlinkFollows
                      THEN [kind |-> "ELOOP", target |-> <<>>]
                      ELSE KernelLookup(IF IsAbs(n.target) THEN <<>> ELSE cur,
                                        Names(n.target) \o Tail(rest), followed + 1)

\* os.Lstat(name)
Lstat(name) == KernelLookup(<<>>, Names(name), 0)

(***************************************************************************)
(* EvaluateSymlinksInsideApp(appRootfs, path), one loop iteration per      *)
(* step, and the caller's use of the result.                               *)
(***************************************************************************)
\* paths := strings.Split(path, "/")
paths == Split(wpath)

\* EvaluateSymlinksInsideApp is called on some filesystem with some path.
WalkInit ==
    /\ tree \in Trees
    /\ wpath \in WalkPaths
    /\ wpc = "loop"
    /\ link = AppRootfs
    /\ wi = 1
    /\ wsteps = 0
    /\ werr = ""
    /\ wret = <<>>
    /\ mntAbsPath = <<>>

\* strings.HasPrefix(next, appRootfs)
InsideRoot(str) == HasPrefix(str, AppRootfs)

\* The accumulated path after a symlink with this target.
LinkTarget(cur, target) ==
    IF IsAbs(target) THEN Join(<<AppRootfs, target>>) ELSE Join(<<cur, target>>)

\* The index of the iteration after the one that followed a symlink: the
\* range goes on with the next component.
IndexAfterSymlinkSame(i) == i

IndexAfterSymlink(i) == i + 1

\* One iteration of: for i, p := range paths.
WalkStep ==
    /\ wpc = "loop"
    /\ wi <= Len(paths)
    /\ LET p    == paths[wi]
           next == Join(<<link, p>>)
           fi   == Lstat(next)
       IN  IF ~InsideRoot(next)
           THEN /\ werr' = "path escapes app's root"
                /\ wpc' = "done"
                /\ UNCHANGED <<link, wi>>
           ELSE IF fi.kind = "ENOENT"
           THEN /\ link' = Join(<<link>> \o SubSeq(paths, wi, Len(paths)))
                /\ wpc' = "return"
                /\ UNCHANGED <<werr, wi>>
           ELSE IF fi.kind \in {"ENOTDIR", "ELOOP"}
           THEN /\ werr' = fi.kind
                /\ wpc' = "done"
                /\ UNCHANGED <<link, wi>>
           ELSE IF fi.kind # "link"
           THEN /\ link' = Join(<<link, p>>)
                /\ wi' = wi + 1
                /\ wpc' = IF wi + 1 > Len(paths) THEN "return" ELSE "loop"
                /\ UNCHANGED werr
           ELSE /\ link' = LinkTarget(link, fi.target)
                /\ IF ~InsideRoot(link')
                   THEN /\ werr' = "symlink escapes app's root"
                        /\ wpc' = "done"
                        /\ UNCHANGED wi
                   ELSE /\ wi' = IndexAfterSymlink(wi)
                        /\ wpc' = IF wi' > Len(paths) THEN "return" ELSE "loop"
                        /\ UNCHANGED werr
    /\ wsteps' = wsteps + 1
    /\ UNCHANGED <<tree, wpath, wret, mntAbsPath>>
    /\ UNCHANGED nonSymlinkVars

\* return strings.TrimPrefix(link, appRootfs), nil
WalkReturn ==
    /\ wpc = "return"
    /\ wret' = TrimPrefix(link, AppRootfs)
    /\ wpc' = "done"
    /\ UNCHANGED <<tree, wpath, link, wi, wsteps, werr, mntAbsPath>>
    /\ UNCHANGED nonSymlinkVars

\* appToNspawnArgs: mntAbsPath := filepath.Join(appRootfs, mntPath)
MountTarget ==
    /\ wpc = "done"
    /\ werr = ""
    /\ mntAbsPath' = Join(<<AppRootfs, wret>>)
    /\ wpc' = "mounted"
    /\ UNCHANGED <<tree, wpath, link, wi, wsteps, werr, wret>>
    /\ UNCHANGED nonSymlinkVars

WalkNext ==
    \/ WalkStep
    \/ WalkReturn
    \/ MountTarget

SymlinksInit == WalkInit /\ StIdle /\ CapIdle /\ PodIdle /\ NsIdle /\ RestIdle

SpecSymlinks == SymlinksInit /\ [][WalkNext]_vars

(***************************************************************************)
(* Properties of the symlink walk.  The reference resolver resolves every  *)
(* symlink relative to the app's root: a symlink's destination is its      *)
(* target re-rooted (absolute) or taken from the symlink's directory       *)
(* (relative); a destination outside the root is an escape, one inside is  *)
(* resolved again from the root.                                           *)
(***************************************************************************)
InsideNames(q) ==
    Len(q) >= Len(RootNames) /\ SubSeq(q, 1, Len(RootNames)) = RootNames

\* The names of the destination of a symlink in directory dir.
Destination(dir, target) ==
    IF IsAbs(target)
    THEN CleanPieces(TRUE, RootNames \o Split(target), <<>>)
    ELSE CleanPieces(TRUE, dir \o Split(target), <<>>)

RECURSIVE RefResolve(_, _, _)
RefResolve(cur, rest, fuel) ==
    IF rest = <<>> THEN [status |-> "ok", at |-> cur]
    ELSE LET c == Head(rest)
         IN  IF c = Dot THEN RefResolve(cur, Tail(rest), fuel)
             ELSE IF c = DotDot
             THEN IF InsideNames(Parent(cur))
                  THEN RefResolve(Parent(cur), Tail(rest), fuel)
                  ELSE [status |-> "path escapes", at |-> <<>>]
             ELSE LET q == Append(cur, c)
                      n == NodeAt(q)
                  IN  IF n.kind = "none"
                      THEN LET lit == CleanPieces(TRUE, q \o Tail(rest), <<>>)
                           IN  IF InsideNames(lit)
                               THEN [status |-> "ok", at |-> lit]
                               ELSE [status |-> "path escapes", at |-> <<>>]
                      ELSE IF n.kind = "dir" THEN RefResolve(q, Tail(rest), fuel)
                      ELSE IF n.kind = "file"
                      THEN IF Tail(rest) = <<>>
                           THEN [status |-> "ok", at |-> q]
                           ELSE [status |-> "not a directory", at |-> <<>>]
                      ELSE LET dest == Destination(cur, n.target)
                           IN  IF ~InsideNames(dest)
                               THEN [status |-> "symlink escapes", at |-> <<>>]
                               ELSE IF fuel = 0
                               THEN [status |-> "loop", at |-> <<>>]
                               ELSE RefResolve(RootNames,
                                               SubSeq(dest, Len(RootNames) + 1, Len(dest))
                                                   \o Tail(rest),
                                               fuel - 1)

\* The reference resolution of the path argument.
Reference == RefResolve(RootNames, Names(wpath), MaxSymlinkFollows)

\* A resolved location as a path relative to the app's root.
RelativeToRoot(q) ==
    IF Len(q) = Len(RootNames) THEN <<>>
    ELSE <<"/">> \o JoinSlash(SubSeq(q, Len(RootNames) + 1, Len(q)))

SymlinkPaths == {q \in TreePaths : NodeAt(q).kind = "link"}

\* Every symlink of the filesystem has its destination inside the app's
\* root, and none lies on a cycle.
LayoutContained ==
    \A q \in SymlinkPaths :
        /\ InsideNames(Destination(Parent(q), NodeAt(q).target))
        /\ RefResolve(RootNames, SubSeq(q, Len(RootNames) + 1, Len(q)),
                      MaxSymlinkFollows).status = "ok"

WalkOver == wpc \in {"done", "mounted"}

EscapeErrors == {"path escapes app's root", "symlink escapes app's root"}

\* C5: a path whose resolution passes through a symlink with a destination
\* outside the app's root makes EvaluateSymlinksInsideApp fail with an
\* escape error; it never returns a path.
C5_EscapingSymlinkRejected ==
    (WalkOver /\ Reference.status = "symlink escapes") => werr \in EscapeErrors

\* C6: when EvaluateSymlinksInsideApp returns a path, the accumulated path
\* is, name by name, the app's root or a descendant of it.
C6_ReturnedPathInsideRoot ==
    (WalkOver /\ werr = "") => InsideNames(Names(link))

\* C7: on a filesystem whose symlinks are all contained in the app's root
\* and acyclic, EvaluateSymlinksInsideApp returns the path the reference
\* resolver returns.
C7_AgreesWithReference ==
    (WalkOver /\ LayoutContained /\ Reference.status = "ok") =>
        (werr = "" /\ wret = RelativeToRoot(Reference.at))

(***************************************************************************)
(* The capability resolver: getAppCapabilities.                            *)
(***************************************************************************)
\* The longest isolator list tried.
MaxIsolators == 2

LinuxCapabilitiesRetainSetName == "os/linux/capabilities-retain-set"
LinuxCapabilitiesRevokeSetName == "os/linux/capabilities-remove-set"
LinuxNoNewPrivilegesName       == "os/linux/no-new-privileges"

\* The capability sets an isolator may carry (a set is never empty).
CapSets ==
    { <<"CAP_SETUID">>,
      <<"CAP_KILL", "CAP_AUDIT_WRITE">>,
      <<"CAP_SETUID", "CAP_SYS_ADMIN", "CAP_SETUID">>,
      <<"CAP_SYS_CHROOT", "CAP_NET_ADMIN">> }

\* An isolator: its name, whether its value is a LinuxCapabilitiesSet, and
\* the set.
Isolators ==
    { [name |-> n, isCapSet |-> TRUE, set |-> cs] :
        n \in {LinuxCapabilitiesRetainSetName, LinuxCapabilitiesRevokeSetName},
        cs \in CapSets }
    \cup { [name |-> LinuxNoNewPrivilegesName, isCapSet |-> FALSE, set |-> <<>>] }

IsolatorLists == UNION { [1..n -> Isolators] : n \in 0..MaxIsolators }

\* A default list that lost its last entry.
appDefaultCapabilitiesShort ==
    << "CAP_AUDIT_WRITE", "CAP_CHOWN", "CAP_DAC_OVERRIDE", "CAP_FSETID",
       "CAP_FOWNER", "CAP_KILL", "CAP_MKNOD", "CAP_NET_RAW",
       "CAP_NET_BIND_SERVICE", "CAP_SETUID", "CAP_SETGID", "CAP_SETPCAP",
       "CAP_SETFCAP" >>

appDefaultCapabilities ==
    << "CAP_AUDIT_WRITE", "CAP_CHOWN", "CAP_DAC_OVERRIDE", "CAP_FSETID",
       "CAP_FOWNER", "CAP_KILL", "CAP_MKNOD", "CAP_NET_RAW",
       "CAP_NET_BIND_SERVICE", "CAP_SETUID", "CAP_SETGID", "CAP_SETPCAP",
       "CAP_SETFCAP", "CAP_SYS_CHROOT" >>

\* parseLinuxCapabilitiesSet: the names of the set, in order.
parseLinuxCapabilitiesSet(capSet) == [i \in 1..Len(capSet) |-> capSet[i]]

NoCapResult == [caps |-> <<>>, err |-> "", panicked |-> FALSE]

\* getAppCapabilities is called with some isolator list.
CapInit ==
    /\ isolators \in IsolatorLists
    /\ cpc = "collect"
    /\ ci = 1
    /\ capsToRetain = <<>>
    /\ capsToRemove = <<>>
    /\ caps = [arr |-> <<>>, len |-> 0]
    /\ cres = NoCapResult

\* One iteration of: for _, isolator := range isolators.
CapCollect ==
    /\ cpc = "collect"
    /\ ci <= Len(isolators)
    /\ LET isolator == isolators[ci]
       IN  IF isolator.isCapSet /\ isolator.name = LinuxCapabilitiesRetainSetName
           THEN /\ capsToRetain' = capsToRetain \o parseLinuxCapabilitiesSet(isolator.set)
                /\ UNCHANGED capsToRemove
           ELSE IF isolator.isCapSet /\ isolator.name = LinuxCapabilitiesRevokeSetName
           THEN /\ capsToRemove' = capsToRemove \o parseLinuxCapabilitiesSet(isolator.set)
                /\ UNCHANGED capsToRetain
           ELSE UNCHANGED <<capsToRetain, capsToRemove>>
    /\ ci' = ci + 1
    /\ UNCHANGED <<isolators, cpc, caps, cres>>
    /\ UNCHANGED nonCapVars

\* A test that lets a retain list and a remove list through together.
BothDefinedOnlyRetain(retain, remove) == Len(retain) > 0 /\ Len(remove) = 0

\* if len(capsToRetain) > 0 && len(capsToRemove) > 0
BothDefined(retain, remove) == Len(retain) > 0 /\ Len(remove) > 0

\* The tests after the loop, up to caps := appDefaultCapabilities.
CapDecide ==
    /\ cpc = "collect"
    /\ ci > Len(isolators)
    /\ IF BothDefined(capsToRetain, capsToRemove)
       THEN /\ cres' = [caps |-> <<>>, err |-> "cannot have both", panicked |-> FALSE]
            /\ cpc' = "done"
            /\ UNCHANGED <<caps, ci>>
       ELSE IF Len(capsToRetain) = 0 /\ Len(capsToRemove) = 0
       THEN /\ cres' = [caps |-> appDefaultCapabilities, err |-> "", panicked |-> FALSE]
            /\ cpc' = "done"
            /\ UNCHANGED <<caps, ci>>
       ELSE IF Len(capsToRetain) > 0
       THEN /\ cres' = [caps |-> capsToRetain, err |-> "", panicked |-> FALSE]
            /\ cpc' = "done"
            /\ UNCHANGED <<caps, ci>>
       ELSE IF Len(capsToRemove) = 0
       THEN /\ cres' = [caps |-> <<>>, err |-> "", panicked |-> TRUE]
            /\ cpc' = "done"
            /\ UNCHANGED <<caps, ci>>
       ELSE /\ caps' = [arr |-> appDefaultCapabilities,
                        len |-> Len(appDefaultCapabilities)]
            /\ ci' = 1
            /\ cpc' = "remove"
            /\ UNCHANGED cres
    /\ UNCHANGED <<isolators, capsToRetain, capsToRemove>>
    /\ UNCHANGED nonCapVars

\* A deletion that truncates the slice instead of closing the gap.
DeleteAtTruncate(c, i) == [arr |-> c.arr, len |-> c.len - 1]

\* caps = append(caps[:i], caps[i+1:]...): the elements after index i move
\* one place down in the backing array, whose last used cell keeps its value.
DeleteAt(c, i) ==
    [arr |-> [k \in 1..Len(c.arr) |->
                 IF k >= i /\ k < c.len THEN c.arr[k + 1] ELSE c.arr[k]],
     len |-> c.len - 1]

\* for i := len(caps) - 1; i >= 0; i-- { if caps[i] == rc { ... } }
\* (i counts from 1 here).
RECURSIVE RemoveBackward(_, _, _)
RemoveBackward(c, rc, i) ==
    IF i < 1 THEN c
    ELSE IF c.arr[i] = rc THEN RemoveBackward(DeleteAt(c, i), rc, i - 1)
    ELSE RemoveBackward(c, rc, i - 1)

\* One iteration of: for _, rc := range capsToRemove.
CapRemove ==
    /\ cpc = "remove"
    /\ ci <= Len(capsToRemove)
    /\ caps' = RemoveBackward(caps, capsToRemove[ci], caps.len)
    /\ ci' = ci + 1
    /\ UNCHANGED <<isolators, cpc, capsToRetain, capsToRemove, cres>>
    /\ UNCHANGED nonCapVars

\* return caps, nil
CapReturn ==
    /\ cpc = "remove"
    /\ ci > Len(capsToRemove)
    /\ cres' = [caps |-> SubSeq(caps.arr, 1, caps.len), err |-> "",
                panicked |-> FALSE]
    /\ cpc' = "done"
    /\ UNCHANGED <<isolators, ci, capsToRetain, capsToRemove, caps>>
    /\ UNCHANGED nonCapVars

CapNext ==
    \/ CapCollect
    \/ CapDecide
    \/ CapRemove
    \/ CapReturn

CapsInit == CapInit /\ SymIdle /\ StIdle /\ PodIdle /\ NsIdle /\ RestIdle

SpecCaps == CapsInit /\ [][CapNext]_vars

(***************************************************************************)
(* Properties of the capability resolver.                                  *)
(***************************************************************************)
\* The names of the sets of the isolators called name, in isolator order.
RECURSIVE NamesOf(_, _)
NamesOf(isos, name) ==
    IF isos = <<>> THEN <<>>
    ELSE (IF Head(isos).isCapSet /\ Head(isos).name = name
          THEN Head(isos).set ELSE <<>>) \o NamesOf(Tail(isos), name)

Retained == NamesOf(isolators, LinuxCapabilitiesRetainSetName)
Removed  == NamesOf(isolators, LinuxCapabilitiesRevokeSetName)

\* The fixed default list: audit-write, chown, dac-override, fsetid, fowner,
\* kill, mknod, net-raw, net-bind-service, setuid, setgid, setpcap, setfcap,
\* sys-chroot.
FourteenDefaults ==
    << "CAP_AUDIT_WRITE", "CAP_CHOWN", "CAP_DAC_OVERRIDE", "CAP_FSETID",
       "CAP_FOWNER", "CAP_KILL", "CAP_MKNOD", "CAP_NET_RAW",
       "CAP_NET_BIND_SERVICE", "CAP_SETUID", "CAP_SETGID", "CAP_SETPCAP",
       "CAP_SETFCAP", "CAP_SYS_CHROOT" >>

NotRemoved(c) == \A i \in 1..Len(Removed) : Removed[i] # c

\* C8: with neither a retain-set nor a remove-set entry getAppCapabilities
\* returns exactly the fourteen defaults in their order; with a retain list
\* and no remove list it returns exactly the retained names in isolator
\* order.
C8_DefaultOrRetained ==
    cpc = "done" =>
        /\ (Retained = <<>> /\ Removed = <<>>) =>
               cres = [caps |-> FourteenDefaults, err |-> "", panicked |-> FALSE]
        /\ (Retained # <<>> /\ Removed = <<>>) =>
               cres = [caps |-> Retained, err |-> "", panicked |-> FALSE]

\* C8 witness: two retain-set isolators, their names returned in order.
C8_Witness ==
    /\ cpc = "done"
    /\ Len(isolators) = 2
    /\ isolators[1].name = LinuxCapabilitiesRetainSetName
    /\ isolators[2].name = LinuxCapabilitiesRetainSetName
    /\ isolators[1].set # isolators[2].set
    /\ cres.caps = isolators[1].set \o isolators[2].set

\* C9: with a remove list and no retain list getAppCapabilities returns the
\* defaults without the names of the remove list, the rest in default order;
\* a name removed twice or not among the defaults removes nothing more.
C9_DefaultsMinusRemoved ==
    (cpc = "done" /\ Retained = <<>> /\ Removed # <<>>) =>
        cres = [caps |-> SelectSeq(FourteenDefaults, NotRemoved), err |-> "",
                panicked |-> FALSE]

\* C9 witness: CAP_SETUID is removed twice, with a name that is no default,
\* and thirteen defaults are left.
C9_Witness ==
    /\ cpc = "done"
    /\ Retained = <<>>
    /\ Removed = <<"CAP_SETUID", "CAP_SYS_ADMIN", "CAP_SETUID">>
    /\ Len(cres.caps) = 13
    /\ cres.caps[10] = "CAP_SETGID"

\* C10: with a retain list and a remove list getAppCapabilities returns an
\* error and no list, so no list it returns comes from both; the panic
\* after the retain branch is never reached.
C10_BothIsAnError ==
    /\ ~cres.panicked
    /\ (cpc = "done" /\ Retained # <<>> /\ Removed # <<>>) =>
           (cres.err # "" /\ cres.caps = <<>>)
    /\ (cpc = "done" /\ cres.err = "") => (Retained = <<>> \/ Removed = <<>>)

\* C10 witness: a retain set followed by a remove set ends in the error.
C10_Witness ==
    /\ cpc = "done"
    /\ Retained # <<>> /\ Removed # <<>>
    /\ cres.err = "cannot have both"

(***************************************************************************)
(* PodToNspawnArgs and appToNspawnArgs.  A string is a sequence of pieces  *)
(* (single characters in paths, whole words elsewhere); an argument is a   *)
(* string and args a sequence of arguments.  appToNspawnArgs calls         *)
(* EvaluateSymlinksInsideApp and getAppCapabilities: their actions above   *)
(* run the call.                                                           *)
(***************************************************************************)
PodRoot == <<"/", "p">>
UUIDString == <<"2", "a", "-", "7", "f">>
HostSource == <<"/", "h", "/", "v">>

Volume(n, k, src, ro, rec) ==
    [Name |-> n, Kind |-> k, Source |-> src, ReadOnly |-> ro, Recursive |-> rec]

\* An optional boolean (*bool): <<>> is nil.
OptBool == {<<>>, <<TRUE>>, <<FALSE>>}

\* The pod volumes tried: none, or the volume data (host, empty or of an
\* unknown kind) alone or followed by the empty volume tmp.
VolumeLists ==
    LET data == { Volume("data", "host", HostSource, ro, rec) :
                      ro \in OptBool, rec \in OptBool }
                \cup { Volume("data", "empty", <<>>, ro, <<>>) : ro \in OptBool }
                \cup { Volume("data", "bogus", <<>>, <<>>, <<>>) }
        tmp  == Volume("tmp", "empty", <<>>, <<>>, <<>>)
    IN  {<<>>} \cup { <<v>> : v \in data } \cup { <<v, tmp>> : v \in data }

MountPoint(n, path, ro) == [Name |-> n, Path |-> path, ReadOnly |-> ro]

RetainKill == [name |-> LinuxCapabilitiesRetainSetName, isCapSet |-> TRUE,
               set |-> <<"CAP_KILL", "CAP_AUDIT_WRITE">>]
RevokeSetuid == [name |-> LinuxCapabilitiesRevokeSetName, isCapSet |-> TRUE,
                 set |-> <<"CAP_SETUID">>]

\* The RuntimeApp lists tried: the app web alone or followed by the app db.
RuntimeAppLists ==
    LET web == { [Name |-> "web", MountPoints |-> mps, Isolators |-> iso] :
                   mps \in {<<>>}
                       \cup { <<MountPoint("data", <<"/", "d">>, ro)>> :
                                ro \in BOOLEAN }
                       \cup { <<MountPoint("data", <<"/", "s">>, ro),
                                MountPoint("tmp", <<"/", "d">>, FALSE)>> :
                                ro \in BOOLEAN },
                   iso \in {<<>>, <<RevokeSetuid>>, <<RetainKill, RevokeSetuid>>} }
        db  == { [Name |-> "db", MountPoints |-> mps, Isolators |-> <<RetainKill>>] :
                   mps \in {<<>>, <<MountPoint("tmp", <<"/", "t">>, TRUE)>>} }
    IN  { <<w>> : w \in web } \cup { <<w, d>> : w \in web, d \in db }

\* The app filesystems tried: d is a directory and s a symlink to it, or
\* d is absent and s a symlink out of the app's root; t does not exist.
NspawnTrees ==
    { tr \in Trees :
        /\ tr[<<nP, nR, nT>>] = NoNode
        /\ \/ tr[<<nP, nR, nD>>] = DirNode /\ tr[<<nP, nR, nS>>] = LinkNode(<<"d">>)
           \/ /\ tr[<<nP, nR, nD>>] = NoNode
              /\ tr[<<nP, nR, nS>>] =
                     LinkNode(<<".", ".", "/", ".", ".", "/", "e">>) }

\* common.Stage1RootfsPath(root)
Stage1RootfsPath(root) == Join(<<root, <<"s", "1">>, <<"r">> >>)

\* common.SharedVolumesPath(root)
SharedVolumesPath(root) == Join(<<root, <<"v">> >>)

\* common.RelAppRootfsPath(appName)
RelAppRootfsPath(appName) == <<"/", "o", "/", appName, "/", "r">>

\* An id without the rkt- prefix.
GetMachineIDBare(uuid) == uuid

\* GetMachineID: "rkt-" + p.UUID.String()
GetMachineID(uuid) == <<"rkt-">> \o uuid

\* The zero Volume a map lookup yields for a missing key.
ZeroVolume == Volume("", "", <<>>, <<>>, <<>>)

\* vols[name], the map being filled from p.Manifest.Volumes in order.
RECURSIVE VolsLookup(_, _)
VolsLookup(volumes, name) ==
    IF volumes = <<>> THEN ZeroVolume
    ELSE IF volumes[Len(volumes)].Name = name THEN volumes[Len(volumes)]
    ELSE VolsLookup(SubSeq(volumes, 1, Len(volumes) - 1), name)

\* GenerateMounts: one mount per mount point of the app, in order.
GenerateMounts(ra) ==
    [k \in 1..Len(ra.MountPoints) |->
        [Volume |-> ra.MountPoints[k].Name, Path |-> ra.MountPoints[k].Path]]

\* The read-only flag of the mount point called name (false if none).
RECURSIVE MountPointReadOnly(_, _)
MountPointReadOnly(mountPoints, name) ==
    IF mountPoints = <<>> THEN FALSE
    ELSE IF Head(mountPoints).Name = name THEN Head(mountPoints).ReadOnly
    ELSE MountPointReadOnly(Tail(mountPoints), name)

\* IsMountReadOnly(vol, app.MountPoints)
IsMountReadOnly(vol, mountPoints) ==
    IF vol.ReadOnly # <<>> THEN vol.ReadOnly[1]
    ELSE MountPointReadOnly(mountPoints, vol.Name)

\* A volume kind test that lets the zero Volume through.
KnownKindOrNone(kind) == kind \in {"host", "empty", ""}

\* switch vol.Kind: case "host", case "empty"; anything else is the default.
KnownKind(kind) == kind \in {"host", "empty"}

\* A recursive flag that defaults to false.
IsRecursiveDefaultFalse(vol) ==
    IF vol.Recursive # <<>> THEN vol.Recursive[1] ELSE FALSE

\* recursive := true; if vol.Recursive != nil { recursive = *vol.Recursive }
IsRecursive(vol) ==
    IF vol.Recursive # <<>> THEN vol.Recursive[1] ELSE TRUE

\* strings.Join(opt, ""), opt[0] to opt[5] as appToNspawnArgs fills them.
BindArg(appName, vol, mountPoints, mntPath) ==
    (IF IsMountReadOnly(vol, mountPoints) THEN <<"--bind-ro=">> ELSE <<"--bind=">>)
    \o (IF vol.Kind = "host" THEN vol.Source
        ELSE Join(<<SharedVolumesPath(PodRoot), <<vol.Name>> >>))
    \o <<":">>
    \o Join(<<RelAppRootfsPath(appName), mntPath>>)
    \o <<":">>
    \o (IF IsRecursive(vol) THEN <<"rbind">> ELSE <<"norbind">>)

\* strings.Join(elems, sep) of words.
RECURSIVE JoinWords(_, _)
JoinWords(elems, sep) ==
    IF elems = <<>> THEN <<>>
    ELSE IF Len(elems) = 1 THEN <<elems[1]>>
    ELSE <<elems[1], sep>> \o JoinWords(Tail(elems), sep)

\* "--capability=" + strings.Join(capabilitiesStr, ",")
CapabilityArg(capabilitiesStr) == <<"--capability=">> \o JoinWords(capabilitiesStr, ",")

NoNspawnResult == [args |-> <<>>, err |-> ""]

\* The walk and the capability resolver are not running.
WalkOff ==
    /\ wpath = <<>> /\ wpc = "off" /\ link = <<>> /\ wi = 0 /\ wsteps = 0
    /\ werr = "" /\ wret = <<>> /\ mntAbsPath = <<>>

\* PodToNspawnArgs is about to be called on some pod.
NspawnInit ==
    /\ podApps \in RuntimeAppLists
    /\ podVolumes \in VolumeLists
    /\ disableCapabilities \in BOOLEAN
    /\ tree \in NspawnTrees
    /\ WalkOff
    /\ CapIdle
    /\ StIdle
    /\ npc = "start"
    /\ ai = 0
    /\ mi = 0
    /\ args = <<>>
    /\ aargs = <<>>
    /\ nres = NoNspawnResult
    /\ resolved = <<>>
    /\ entered = <<>>
    /\ RestIdle

\* return nil, err: from appToNspawnArgs and then from PodToNspawnArgs.
NspawnFail(err) ==
    /\ nres' = [args |-> <<>>, err |-> err]
    /\ npc' = "done"
    /\ args' = <<>>
    /\ aargs' = <<>>

\* args := []string{"--uuid=" ..., "--machine=" ..., "--directory=" ...}
PodToNspawnArgsCall ==
    /\ npc = "start"
    /\ args' = << <<"--uuid=">> \o UUIDString,
                  <<"--machine=">> \o GetMachineID(UUIDString),
                  <<"--directory=">> \o Stage1RootfsPath(PodRoot) >>
    /\ ai' = 1
    /\ npc' = "apps"
    /\ UNCHANGED <<mi, aargs, nres, resolved, entered>>
    /\ UNCHANGED <<stVars, symVars, capVars, podVars, restVars>>

\* for i := range p.Manifest.Apps: appToNspawnArgs is called and creates the
\* shared volumes directory (made: MkdirAll and Chmod succeed).
AppToNspawnArgsCall ==
    /\ npc = "apps"
    /\ ai <= Len(podApps)
    /\ entered' = Append(entered, ai)
    /\ \E made \in BOOLEAN :
          IF ~made
          THEN NspawnFail("could not create shared volumes directory")
               /\ UNCHANGED mi
          ELSE /\ aargs' = <<>>
               /\ mi' = 1
               /\ npc' = "mounts"
               /\ UNCHANGED <<args, nres>>
    /\ UNCHANGED <<ai, resolved>>
    /\ UNCHANGED <<stVars, symVars, capVars, podVars, restVars>>

\* for _, m := range mounts: up to the call of EvaluateSymlinksInsideApp.
MountEvaluate ==
    /\ npc = "mounts"
    /\ mi <= Len(GenerateMounts(podApps[ai]))
    /\ wpath' = GenerateMounts(podApps[ai])[mi].Path
    /\ wpc' = "loop"
    /\ link' = AppRootfs
    /\ wi' = 1
    /\ wsteps' = 0
    /\ werr' = ""
    /\ wret' = <<>>
    /\ mntAbsPath' = <<>>
    /\ npc' = "walking"
    /\ UNCHANGED <<tree, ai, mi, args, aargs, nres, resolved, entered>>
    /\ UNCHANGED <<stVars, capVars, podVars, restVars>>

\* The rest of the loop body: the error of the walk, PrepareMountpoints
\* (prepared: it succeeds), the bind argument.
MountBind ==
    /\ npc = "walking"
    /\ \/ wpc = "done" /\ werr # ""
       \/ wpc = "mounted"
    /\ LET ra  == podApps[ai]
           m   == GenerateMounts(ra)[mi]
           vol == VolsLookup(podVolumes, m.Volume)
       IN  \E prepared \in BOOLEAN :
              IF werr # ""
              THEN NspawnFail("could not evaluate path")
                   /\ UNCHANGED <<mi, resolved>>
              ELSE IF ~prepared
              THEN NspawnFail("could not prepare mountpoint")
                   /\ UNCHANGED <<mi, resolved>>
              ELSE IF ~KnownKind(vol.Kind)
              THEN NspawnFail("invalid volume kind")
                   /\ UNCHANGED <<mi, resolved>>
              ELSE /\ aargs' = Append(aargs, BindArg(ra.Name, vol, ra.MountPoints, wret))
                   /\ resolved' = Append(resolved, wret)
                   /\ mi' = mi + 1
                   /\ npc' = "mounts"
                   /\ UNCHANGED <<args, nres>>
    /\ wpath' = <<>> /\ wpc' = "off" /\ link' = <<>> /\ wi' = 0 /\ wsteps' = 0
    /\ werr' = "" /\ wret' = <<>> /\ mntAbsPath' = <<>>
    /\ UNCHANGED <<tree, ai, entered>>
    /\ UNCHANGED <<stVars, capVars, podVars, restVars>>

\* After the mounts: if !insecureOptions.DisableCapabilities, the call of
\* getAppCapabilities(app.Isolators); else return args, nil and the append
\* of PodToNspawnArgs.
AppCapabilities ==
    /\ npc = "mounts"
    /\ mi > Len(GenerateMounts(podApps[ai]))
    /\ IF ~disableCapabilities
       THEN /\ isolators' = podApps[ai].Isolators
            /\ cpc' = "collect"
            /\ ci' = 1
            /\ npc' = "caps"
            /\ UNCHANGED <<ai, mi, args, aargs>>
       ELSE /\ args' = args \o aargs
            /\ aargs' = <<>>
            /\ ai' = ai + 1
            /\ mi' = 0
            /\ npc' = "apps"
            /\ UNCHANGED <<isolators, cpc, ci>>
    /\ UNCHANGED <<capsToRetain, capsToRemove, caps, cres>>
    /\ UNCHANGED <<nres, resolved, entered>>
    /\ UNCHANGED <<stVars, symVars, podVars, restVars>>

\* getAppCapabilities has returned: its error, or the capability argument,
\* return args, nil and the append of PodToNspawnArgs.
AppCapabilitiesDone ==
    /\ npc = "caps"
    /\ cpc = "done"
    /\ IF cres.err # "" \/ cres.panicked
       THEN NspawnFail(cres.err) /\ UNCHANGED ai
       ELSE /\ args' = args \o Append(aargs, CapabilityArg(cres.caps))
            /\ aargs' = <<>>
            /\ ai' = ai + 1
            /\ npc' = "apps"
            /\ UNCHANGED nres
    /\ mi' = 0
    /\ isolators' = <<>>
    /\ cpc' = "off"
    /\ ci' = 0
    /\ capsToRetain' = <<>>
    /\ capsToRemove' = <<>>
    /\ caps' = [arr |-> <<>>, len |-> 0]
    /\ cres' = NoCapResult
    /\ UNCHANGED <<resolved, entered>>
    /\ UNCHANGED <<stVars, symVars, podVars, restVars>>

\* After the loop: the blanket capability argument, return args, nil.
PodToNspawnArgsReturn ==
    /\ npc = "apps"
    /\ ai > Len(podApps)
    /\ nres' = [args |-> IF disableCapabilities
                         THEN Append(args, <<"--capability=all">>)
                         ELSE args,
                err |-> ""]
    /\ npc' = "done"
    /\ args' = <<>>
    /\ UNCHANGED <<ai, mi, aargs, resolved, entered>>
    /\ UNCHANGED <<stVars, symVars, capVars, podVars, restVars>>

NspawnNext ==
    \/ PodToNspawnArgsCall
    \/ AppToNspawnArgsCall
    \/ MountEvaluate
    \/ WalkStep
    \/ WalkReturn
    \/ MountTarget
    \/ MountBind
    \/ AppCapabilities
    \/ CapCollect
    \/ CapDecide
    \/ CapRemove
    \/ CapReturn
    \/ AppCapabilitiesDone
    \/ PodToNspawnArgsReturn

SpecNspawn == NspawnInit /\ [][NspawnNext]_vars

(***************************************************************************)
(* Properties of the argument list.                                        *)
(***************************************************************************)
\* The pod volume called name, if there is one.
HasVolume(name) == \E k \in 1..Len(podVolumes) : podVolumes[k].Name = name
VolumeNamed(name) ==
    podVolumes[CHOOSE k \in 1..Len(podVolumes) : podVolumes[k].Name = name]

\* The bind argument of mount point mp of the app called appName, for the
\* resolved mount path mntPath.
ExpectedBind(appName, mp, mntPath) ==
    LET vol      == VolumeNamed(mp.Name)
        readOnly == IF vol.ReadOnly = <<TRUE>> THEN TRUE
                    ELSE IF vol.ReadOnly = <<FALSE>> THEN FALSE
                    ELSE mp.ReadOnly
        source   == IF vol.Kind = "host" THEN vol.Source
                    ELSE SharedVolumesPath(PodRoot) \o <<"/", vol.Name>>
        target   == Join(<<RelAppRootfsPath(appName), mntPath>>)
        mode     == IF vol.Recursive = <<FALSE>> THEN "norbind" ELSE "rbind"
    IN  <<IF readOnly THEN "--bind-ro=" ELSE "--bind=">>
        \o source \o <<":">> \o target \o <<":", mode>>

\* The bind arguments of an app, whose mount paths resolved to paths[1..].
ExpectedBinds(ra, mntPaths) ==
    [k \in 1..Len(ra.MountPoints) |->
        ExpectedBind(ra.Name, ra.MountPoints[k], mntPaths[k])]

\* The capability set the isolators iso resolve to.
ResolvedSet(iso) ==
    LET R == NamesOf(iso, LinuxCapabilitiesRetainSetName)
        D == NamesOf(iso, LinuxCapabilitiesRevokeSetName)
    IN  IF R # <<>> THEN R
        ELSE SelectSeq(FourteenDefaults, LAMBDA c : \A i \in 1..Len(D) : D[i] # c)

\* The arguments of the apps from index i on; the mount paths of the apps
\* before i are the first used entries of resolved.
RECURSIVE ExpectedFrom(_, _)
ExpectedFrom(i, used) ==
    IF i > Len(podApps) THEN <<>>
    ELSE LET ra == podApps[i]
             n  == Len(ra.MountPoints)
         IN  ExpectedBinds(ra, SubSeq(resolved, used + 1, used + n))
             \o (IF disableCapabilities THEN <<>>
                 ELSE << <<"--capability=">> \o JoinWords(ResolvedSet(ra.Isolators), ",") >>)
             \o ExpectedFrom(i + 1, used + n)

NspawnSucceeded == npc = "done" /\ nres.err = ""

\* C11: on success PodToNspawnArgs returns --uuid, --machine=rkt-<uuid>,
\* --directory, then app by app the bind arguments in mount order and one
\* capability argument; with capabilities disabled no app has a capability
\* argument and the list ends with the only --capability=all.
C11_ArgumentListLayout ==
    NspawnSucceeded =>
        nres.args =
            << <<"--uuid=">> \o UUIDString,
               <<"--machine=", "rkt-">> \o UUIDString,
               <<"--directory=">> \o Stage1RootfsPath(PodRoot) >>
            \o ExpectedFrom(1, 0)
            \o (IF disableCapabilities THEN << <<"--capability=all">> >> ELSE <<>>)

\* C11 witness: two apps, the first with two mounts, and capability
\* arguments per app.
C11_Witness ==
    /\ NspawnSucceeded
    /\ Len(podApps) = 2
    /\ Len(podApps[1].MountPoints) = 2
    /\ Len(podApps[2].MountPoints) = 1
    /\ ~disableCapabilities
    /\ Len(nres.args) = 8

\* C12: every bind argument appToNspawnArgs has built is
\* <prefix><source>:<target>:<mode>, with the prefix by the resolved
\* read-only flag, the source by the volume's kind, the target under the
\* relative app rootfs and norbind only for a recursive flag set to false.
C12_BindArgumentForm ==
    (npc \in {"mounts", "walking", "caps"}) =>
        \A k \in 1..Len(aargs) :
            aargs[k] = ExpectedBind(podApps[ai].Name, podApps[ai].MountPoints[k],
                                    resolved[Len(resolved) - Len(aargs) + k])

\* C12 witness: a host volume without a recursive flag, read-only by the
\* mount point, mounted over the symlink s that leads to d.
C12_Witness ==
    /\ npc = "mounts"
    /\ Len(aargs) = 1
    /\ VolumeNamed("data").Kind = "host"
    /\ VolumeNamed("data").ReadOnly = <<>>
    /\ VolumeNamed("data").Recursive = <<>>
    /\ aargs[1] = <<"--bind-ro=", "/", "h", "/", "v", ":",
                    "/", "o", "/", "web", "/", "r", "/", "d", ":", "rbind">>
    /\ podApps[ai].MountPoints[1].Path = <<"/", "s">>

\* A mount point whose volume is absent or of a kind other than host and
\* empty.
BadMount(mp) ==
    ~ (HasVolume(mp.Name) /\ VolumeNamed(mp.Name).Kind \in {"host", "empty"})
BadApp(i) ==
    \E k \in 1..Len(podApps[i].MountPoints) : BadMount(podApps[i].MountPoints[k])
FirstBadApp == CHOOSE i \in 1..Len(podApps) :
                   BadApp(i) /\ \A j \in 1..(i - 1) : ~BadApp(j)

\* C13: with a mount whose volume is absent or of an unknown kind,
\* PodToNspawnArgs returns an error and no list, and appToNspawnArgs is not
\* called for any app after the first such app.
C13_BadVolumeAborts ==
    (\E i \in 1..Len(podApps) : BadApp(i)) =>
        /\ npc = "done" => (nres.err # "" /\ nres.args = <<>>)
        /\ ai <= FirstBadApp
        /\ \A k \in 1..Len(entered) : entered[k] <= FirstBadApp

\* C13 witness: the first of two apps has a mount without a volume; the
\* call ends with the volume kind error and the second app was not entered.
C13_Witness ==
    /\ npc = "done"
    /\ Len(podApps) = 2
    /\ BadApp(1)
    /\ podVolumes = <<>>
    /\ nres.err = "invalid volume kind"
    /\ entered = <<1>>

(***************************************************************************)
(* The status listing of a pod at rest: AppsForPod is called, with every   *)
(* filter, on a pod of two apps whose markers, mount points and volumes    *)
(* are given and do not change.                                            *)
(***************************************************************************)
\* A marker that exists with this content.
Marker(p, data) == [exists |-> TRUE, mtime |-> ModTime(p, data), data |-> data]

\* The markers of an app: level 0 none, 1 the app-info directory, 2 the
\* started marker too, 3 the exit-status marker too, holding content.
AppMarkers(a, level, content) ==
    [p \in {appInfoDir(a), appStartedFile(a), appExitedFile(a)} |->
        IF p = appInfoDir(a) /\ level >= 1 THEN Marker(p, <<>>)
        ELSE IF p = appStartedFile(a) /\ level >= 2 THEN Marker(p, <<>>)
        ELSE IF p = appExitedFile(a) /\ level >= 3 THEN Marker(p, content)
        ELSE NoFile]

\* The contents of an exit-status marker: a status, nothing yet, no number.
ExitContents == { <<"7", "\n">>, <<>>, <<"x">> }

ListingMarkers ==
    { [p \in MarkerPaths |-> IF p \in DOMAIN w THEN w[p] ELSE d[p]] :
        w \in { AppMarkers("web", l, <<>>) : l \in 0..2 }
              \cup { AppMarkers("web", 3, c) : c \in ExitContents },
        d \in { AppMarkers("db", 0, <<>>), AppMarkers("db", 2, <<>>),
                AppMarkers("db", 3, <<"x">>) } }

ListingVolumes ==
    { vl \in VolumeLists :
        Len(vl) <= 1 /\ \A k \in 1..Len(vl) :
                            vl[k].Recursive = <<>> /\ vl[k].Kind # "bogus" }

ListingApps ==
    { << [Name |-> "web", MountPoints |-> wm, Isolators |-> <<>>],
         [Name |-> "db", MountPoints |-> dm, Isolators |-> <<>>] >> :
        wm \in {<<>>} \cup { <<MountPoint("data", <<"/", "d">>, ro)>> : ro \in BOOLEAN },
        dm \in {<<>>, <<MountPoint("data", <<"/", "t">>, FALSE)>>} }

ListingInit ==
    /\ podApps \in ListingApps
    /\ manifest = [k \in 1..Len(podApps) |-> podApps[k].Name]
    /\ podVolumes \in ListingVolumes
    /\ disableCapabilities = FALSE
    /\ fs \in ListingMarkers
    /\ podAfterRun \in BOOLEAN
    /\ podGCTime \in {ZeroTime} \cup (IF podAfterRun THEN {GCMarkTime} ELSE {})
    /\ appExit = [a \in AppNames |-> <<>>]
    /\ pc = "idle"
    /\ filter = ""
    /\ qi = 1
    /\ app = NoApp
    /\ qerr = ""
    /\ sawAfterRun = FALSE
    /\ apps = <<>>
    /\ began = NoBegan
    /\ quiet = FALSE
    /\ lastReported = [a \in AppNames |-> <<>>]
    /\ SymIdle /\ CapIdle /\ NsIdle /\ RestIdle

ListingNext ==
    \/ \E f \in {""} \cup AppNames : AppsForPodCall(f)
    \/ LoopNext
    \/ StatInfoDir
    \/ StatStartedFile
    \/ StatExitedFile
    \/ ReadExit
    \/ Deferred
    \/ DeferredGCTime
    \/ NewAppReturn
    \/ AppsForPodReturn

SpecListing == ListingInit /\ [][ListingNext]_vars

(***************************************************************************)
(* Properties of the listing.                                              *)
(***************************************************************************)
Selected(a) == filter = "" \/ filter = a

\* The exit-status marker of the app is reached and holds no integer.
StateQueryFails(a) ==
    /\ InfoExists(a) /\ StartedExists(a) /\ ExitedExists(a)
    /\ fs[appExitedFile(a)].data \in {<<>>, <<"x">>}

\* Some mount point of the app gets no host path from the pod's volumes.
MountsFail(a) ==
    \E k \in 1..Len(MountPointsOf(podApps, a)) :
        LET mp == MountPointsOf(podApps, a)[k]
        IN  ~HasVolume(mp.Name) \/ VolumeNamed(mp.Name).Source = <<>>

ListedNames == [k \in 1..Len(apps) |-> apps[k].Name]
Listed(a) == \E k \in 1..Len(apps) : apps[k].Name = a

\* C14: every mount AppsForPod reports has the read-only value of the
\* volume's override if the volume has one, and of the mount point if not.
C14_ReadOnlyOverridePrecedence ==
    \A i \in 1..Len(apps) :
        \A k \in 1..Len(apps[i].Mounts) :
            LET mp  == MountPointsOf(podApps, apps[i].Name)[k]
                vol == VolumeNamed(mp.Name)
            IN  apps[i].Mounts[k].ReadOnly =
                    IF vol.ReadOnly # <<>> THEN vol.ReadOnly[1] ELSE mp.ReadOnly

\* C15: when AppsForPod returns, the list holds every selected app whose
\* own entry could be built, in manifest order, whichever other app failed.
C15_SiblingAppsStillListed ==
    pc = "done" =>
        ListedNames = SelectSeq(manifest,
                                LAMBDA a : Selected(a) /\ ~StateQueryFails(a)
                                             /\ ~MountsFail(a))

\* C15 witness: the exit-status marker of web holds no integer, web is
\* left out and db, after it in the manifest, is listed.
C15_Witness ==
    /\ pc = "done"
    /\ filter = ""
    /\ StateQueryFails("web")
    /\ ListedNames = <<"db">>
    /\ apps[1].State = AppStateRunning

\* C16: newApp fails exactly when a mount point of the app has no pod
\* volume of its name; an app whose mount points all have a volume, of
\* kind host or empty, is listed with one mount per mount point.
C16_MountErrorOnlyWithoutVolume ==
    pc = "done" =>
        \A a \in AppNames :
            (Selected(a) /\ ~StateQueryFails(a)) =>
                LET mps == MountPointsOf(podApps, a)
                IN  /\ Listed(a) <=> \A k \in 1..Len(mps) : HasVolume(mps[k].Name)
                    /\ \A i \in 1..Len(apps) :
                           apps[i].Name = a => Len(apps[i].Mounts) = Len(mps)

(***************************************************************************)
(* parseUserGroup.  The resolvers of pkg/user are given by what they       *)
(* answer: whether each constructor returns a resolver, whether the IDs()  *)
(* of the resolver returns ids, and which.                                 *)
(***************************************************************************)
AppUser  == <<"u", "s", "r">>
AppGroup == <<"g", "r", "p">>

Strategies == <<"NumericIDs", "IDsFromStat", "IDsFromEtc">>

\* For the user and for the group: the constructors that return no error,
\* and whether IDs() of a resolver returns no error.
ResolverAnswers ==
    [user : [made : SUBSET {"NumericIDs", "IDsFromStat", "IDsFromEtc"}, ids : BOOLEAN],
     group : [made : SUBSET {"NumericIDs", "IDsFromStat", "IDsFromEtc"}, ids : BOOLEAN]]

\* The (uid, gid) the IDs() of a resolver returns.
ResolverIDs(who, strategy) ==
    CASE who = "user"  /\ strategy = "NumericIDs"  -> [uid |-> 1000, gid |-> 1000]
      [] who = "user"  /\ strategy = "IDsFromStat" -> [uid |-> 501, gid |-> 20]
      [] who = "user"  /\ strategy = "IDsFromEtc"  -> [uid |-> 65, gid |-> -1]
      [] who = "group" /\ strategy = "NumericIDs"  -> [uid |-> 2000, gid |-> 2000]
      [] who = "group" /\ strategy = "IDsFromStat" -> [uid |-> 502, gid |-> 21]
      [] who = "group" /\ strategy = "IDsFromEtc"  -> [uid |-> -1, gid |-> 33]

ParseUserGroupInit ==
    /\ ugEnv \in ResolverAnswers
    /\ ugpc = [who |-> "user", at |-> "NumericIDs"]
    /\ ugResolver = [user |-> "", group |-> ""]
    /\ ugres = [uid |-> 0, gid |-> 0, err |-> <<>>]
    /\ ugTried = <<>>
    /\ StIdle /\ SymIdle /\ CapIdle /\ PodIdle /\ NsIdle /\ BinIdle /\ QeIdle /\ ShIdle /\ RpIdle

\* A fallback chain that goes from the numeric literal to /etc.
NextStrategySkipStat(strategy) ==
    IF strategy = "NumericIDs" THEN "IDsFromEtc" ELSE "give up"

\* if err != nil { ..., err = user.IDsFromStat(...) }
\* if err != nil { ..., err = user.IDsFromEtc(...) }
\* if err != nil { // give up
NextStrategy(strategy) ==
    CASE strategy = "NumericIDs"  -> "IDsFromStat"
      [] strategy = "IDsFromStat" -> "IDsFromEtc"
      [] strategy = "IDsFromEtc"  -> "give up"

\* return -1, -1, errwrap.Wrap(fmt.Errorf(msg+" %q", name), err)
ParseUserGroupFail(msg, name) ==
    /\ ugres' = [uid |-> -1, gid |-> -1, err |-> <<msg>> \o name]
    /\ ugpc' = [who |-> "", at |-> "done"]

\* One constructor call of the user's or the group's chain, and the give
\* up after the third.
TryResolver ==
    /\ ugpc.at \in {"NumericIDs", "IDsFromStat", "IDsFromEtc"}
    /\ ugTried' = Append(ugTried, <<ugpc.who, ugpc.at>>)
    /\ IF ugpc.at \in ugEnv[ugpc.who].made
       THEN /\ ugResolver' = [ugResolver EXCEPT ![ugpc.who] = ugpc.at]
            /\ ugpc' = [ugpc EXCEPT !.at = "IDs"]
            /\ UNCHANGED ugres
       ELSE IF NextStrategy(ugpc.at) = "give up"
       THEN /\ IF ugpc.who = "user"
               THEN ParseUserGroupFail("invalid user", AppUser)
               ELSE ParseUserGroupFail("invalid group", AppGroup)
            /\ UNCHANGED ugResolver
       ELSE /\ ugpc' = [ugpc EXCEPT !.at = NextStrategy(ugpc.at)]
            /\ UNCHANGED <<ugResolver, ugres>>
    /\ UNCHANGED ugEnv
    /\ UNCHANGED nonUgVars

\* uid, _, err = uidResolver.IDs() and then the group's chain, or
\* _, gid, err = gidResolver.IDs() and return uid, gid, nil.
ResolverIDsCall ==
    /\ ugpc.at = "IDs"
    /\ IF ~ugEnv[ugpc.who].ids
       THEN IF ugpc.who = "user"
            THEN ParseUserGroupFail("failed to configure user", AppUser)
            ELSE ParseUserGroupFail("failed to configure group", AppGroup)
       ELSE IF ugpc.who = "user"
       THEN /\ ugres' = [ugres EXCEPT
                           !.uid = ResolverIDs("user", ugResolver.user).uid]
            /\ ugpc' = [who |-> "group", at |-> "NumericIDs"]
       ELSE /\ ugres' = [ugres EXCEPT
                           !.gid = ResolverIDs("group", ugResolver.group).gid]
            /\ ugpc' = [who |-> "", at |-> "done"]
    /\ UNCHANGED <<ugEnv, ugResolver, ugTried>>
    /\ UNCHANGED nonUgVars

ParseUserGroupNext == TryResolver \/ ResolverIDsCall

SpecParseUserGroup == ParseUserGroupInit /\ [][ParseUserGroupNext]_vars

(***************************************************************************)
(* Properties of parseUserGroup.                                           *)
(***************************************************************************)
\* The index in Strategies of the first constructor that succeeds (4: none).
FirstMade(who) ==
    IF "NumericIDs" \in ugEnv[who].made THEN 1
    ELSE IF "IDsFromStat" \in ugEnv[who].made THEN 2
    ELSE IF "IDsFromEtc" \in ugEnv[who].made THEN 3
    ELSE 4

\* The resolution of the user or group succeeds.
Resolves(who) == FirstMade(who) <= 3 /\ ugEnv[who].ids

\* The strategies tried for who: up to the first that succeeds.
TriedFor(who) ==
    [k \in 1..(IF FirstMade(who) = 4 THEN 3 ELSE FirstMade(who)) |->
        <<who, Strategies[k]>>]

\* C17: parseUserGroup tries numeric, stat-based and /etc resolution in
\* this order for the user and then for the group, stops each chain at the
\* first strategy that succeeds, returns an error naming the user or group
\* string with -1, -1 when all three fail, and returns ids only when both
\* were resolved: the uid of the user's resolver and the gid of the group's.
C17_ResolverFallbackChain ==
    ugpc.at = "done" =>
        /\ ugTried = TriedFor("user")
                       \o (IF Resolves("user") THEN TriedFor("group") ELSE <<>>)
        /\ FirstMade("user") = 4 =>
               ugres = [uid |-> -1, gid |-> -1, err |-> <<"invalid user">> \o AppUser]
        /\ (Resolves("user") /\ FirstMade("group") = 4) =>
               ugres = [uid |-> -1, gid |-> -1, err |-> <<"invalid group">> \o AppGroup]
        /\ ugres.err = <<>> <=> (Resolves("user") /\ Resolves("group"))
        /\ ugres.err = <<>> =>
               /\ ugres.uid = ResolverIDs("user", Strategies[FirstMade("user")]).uid
               /\ ugres.gid = ResolverIDs("group", Strategies[FirstMade("group")]).gid
        /\ ugres.err # <<>> => (ugres.uid = -1 /\ ugres.gid = -1)

\* C17 witness: the user is resolved by stat although /etc would resolve it
\* too, the group only by /etc, and the pair is the stat uid and the /etc gid.
C17_Witness ==
    /\ ugpc.at = "done"
    /\ ugEnv.user.made = {"IDsFromStat", "IDsFromEtc"}
    /\ ugEnv.group.made = {"IDsFromEtc"}
    /\ ugres = [uid |-> 501, gid |-> 33, err |-> <<>>]
    /\ Len(ugTried) = 5

(***************************************************************************)
(* findBinPath for a bare binary name, and lookupPathInsideApp.  The       *)
(* binary is f, the working directory is /, the app's root is AppRootfs.   *)
(***************************************************************************)
BinName == <<"f">>
WorkDir == <<"/">>

\* The search lists tried (what appSearchPaths returns).
SearchLists ==
    { << <<"/", "d">> >>,                               \* /d
      << <<"d">>, <<"/", "n">> >>,                      \* d:/n
      << <<"/", "n">>, <<"/", "d">> >>,                 \* /n:/d
      << <<"/", "s">>, <<"/", "d">> >>,                 \* /s:/d
      << <<"/", "t">>, <<"/", "s">> >>,                 \* /t:/s
      << <<"/", "d", "/", "f">>, <<"/", "d">> >> }      \* /d/f:/d

\* The app filesystems tried: d with the file f or not, s absent or a
\* symlink to d, t, s or out of the root, t absent or a symlink to d or s.
BinTrees ==
    { tr \in Trees :
        /\ tr[<<nP, nR, nS>>] \in
               { NoNode, LinkNode(<<"d">>), LinkNode(<<"t">>), LinkNode(<<"s">>),
                 LinkNode(<<".", ".", "/", ".", ".", "/", "e">>) }
        /\ tr[<<nP, nR, nT>>] \in {NoNode, LinkNode(<<"d">>), LinkNode(<<"s">>)} }

\* strings.Join(appPathDirs, ":")
RECURSIVE JoinList(_)
JoinList(dirs) ==
    IF dirs = <<>> THEN <<>>
    ELSE IF Len(dirs) = 1 THEN dirs[1]
    ELSE dirs[1] \o <<":">> \o JoinList(Tail(dirs))

\* filepath.SplitList(paths): no element for the empty string, else the
\* pieces between the colons.
RECURSIVE SplitListFrom(_, _)
SplitListFrom(str, piece) ==
    IF str = <<>> THEN <<piece>>
    ELSE IF Head(str) = ":" THEN <<piece>> \o SplitListFrom(Tail(str), <<>>)
    ELSE SplitListFrom(Tail(str), Append(piece, Head(str)))

SplitList(str) == IF str = <<>> THEN <<>> ELSE SplitListFrom(str, <<>>)

\* The kernel's lookup of the names rest from the directory cur, every
\* symlink followed, the last name too.
RECURSIVE KernelFollow(_, _, _)
KernelFollow(cur, rest, followed) ==
    IF rest = <<>> THEN DirNode
    ELSE LET c == Head(rest)
         IN  IF c = Dot THEN KernelFollow(cur, Tail(rest), followed)
             ELSE IF c = DotDot THEN KernelFollow(Parent(cur), Tail(rest), followed)
             ELSE LET n == NodeAt(Append(cur, c))
                  IN  IF n.kind = "none" THEN [kind |-> "ENOENT", target |-> <<>>]
                      ELSE IF n.kind = "file"
                      THEN IF Len(rest) = 1 THEN n
                           ELSE [kind |-> "ENOTDIR", target |-> <<>>]
                      ELSE IF n.kind = "dir"
                      THEN KernelFollow(Append(cur, c), Tail(rest), followed)
                      ELSE IF followed >= MaxSymlinkFollows
                      THEN [kind |-> "ELOOP", target |-> <<>>]
                      ELSE KernelFollow(IF IsAbs(n.target) THEN <<>> ELSE cur,
                                        Names(n.target) \o Tail(rest), followed + 1)

\* fileutil.IsExecutable(path): os.Stat finds a regular file with an
\* execute bit.
IsExecutable(name) ==
    binExecutable /\ KernelFollow(<<>>, Names(name), 0).kind = "file"

FindBinPathInit ==
    /\ binDirs \in SearchLists
    /\ binExecutable \in BOOLEAN
    /\ binpc = "start"
    /\ appPathsArr = <<>>
    /\ bi = 0
    /\ binRes = [path |-> <<>>, err |-> <<>>]
    /\ tree \in BinTrees
    /\ WalkOff
    /\ StIdle /\ CapIdle /\ PodIdle /\ NsIdle /\ UgIdle /\ QeIdle /\ ShIdle /\ RpIdle

\* return "", err: from lookupPathInsideApp and then from findBinPath.
FindBinPathFail(err) ==
    /\ binRes' = [path |-> <<>>, err |-> err]
    /\ binpc' = "done"

\* findBinPath, default case, and the first loop of lookupPathInsideApp.
FindBinPathCall ==
    /\ binpc = "start"
    /\ LET appPath  == JoinList(binDirs)
           pathsArr == SplitList(appPath)
       IN  appPathsArr' =
               [k \in 1..Len(pathsArr) |->
                   Join(<<AppRootfs,
                          IF IsAbs(pathsArr[k]) THEN pathsArr[k]
                          ELSE Join(<<WorkDir, pathsArr[k]>>)>>)]
    /\ bi' = 1
    /\ binpc' = "lookup"
    /\ UNCHANGED <<binDirs, binExecutable, binRes>>
    /\ UNCHANGED <<symVars, nonBinVars>>

\* strings.TrimPrefix(filepath.Join(path, bin), appRootfs)
Stage2Path(path) == TrimPrefix(Join(<<path, BinName>>), AppRootfs)

\* for _, path := range appPathsArr: up to the call of
\* EvaluateSymlinksInsideApp; after the loop, the error.
LookupCandidate ==
    /\ binpc = "lookup"
    /\ IF bi > Len(appPathsArr)
       THEN /\ FindBinPathFail(<<"unable to find">> \o BinName \o <<"in">>
                                 \o JoinList(binDirs))
            /\ UNCHANGED symVars
       ELSE /\ wpath' = Stage2Path(appPathsArr[bi])
            /\ wpc' = "loop"
            /\ link' = AppRootfs
            /\ wi' = 1
            /\ wsteps' = 0
            /\ werr' = ""
            /\ wret' = <<>>
            /\ binpc' = "walking"
            /\ UNCHANGED <<tree, mntAbsPath, binRes>>
    /\ UNCHANGED <<binDirs, binExecutable, appPathsArr, bi>>
    /\ UNCHANGED nonBinVars

\* The rest of the loop body: the error of the walk, or the test of the
\* real path.
CandidateChecked ==
    /\ binpc = "walking"
    /\ wpc = "done"
    /\ IF werr # ""
       THEN FindBinPathFail(<<"could not evaluate path">> \o wpath) /\ UNCHANGED bi
       ELSE IF IsExecutable(Join(<<AppRootfs, wret>>))
       THEN /\ binRes' = [path |-> wpath, err |-> <<>>]
            /\ binpc' = "done"
            /\ UNCHANGED bi
       ELSE /\ bi' = bi + 1
            /\ binpc' = "lookup"
            /\ UNCHANGED binRes
    /\ wpath' = <<>> /\ wpc' = "off" /\ link' = <<>> /\ wi' = 0 /\ wsteps' = 0
    /\ werr' = "" /\ wret' = <<>>
    /\ UNCHANGED <<tree, mntAbsPath>>
    /\ UNCHANGED <<binDirs, binExecutable, appPathsArr>>
    /\ UNCHANGED nonBinVars

FindBinPathNext ==
    \/ FindBinPathCall
    \/ LookupCandidate
    \/ WalkStep
    \/ WalkReturn
    \/ CandidateChecked

SpecFindBinPath == FindBinPathInit /\ [][FindBinPathNext]_vars

(***************************************************************************)
(* Properties of the executable lookup.                                    *)
(***************************************************************************)
\* The directory dir of the search list, seen from inside the app, holds
\* an executable regular file called BinName.
HoldsExecutable(dir) ==
    LET r == RefResolve(RootNames, Names(Join(<<WorkDir, dir, BinName>>)),
                        MaxSymlinkFollows)
    IN  binExecutable /\ r.status = "ok" /\ NodeAt(r.at).kind = "file"

FirstHolding ==
    CHOOSE k \in 1..Len(binDirs) :
        HoldsExecutable(binDirs[k]) /\ \A j \in 1..(k - 1) : ~HoldsExecutable(binDirs[j])

\* C18: the lookup of a bare name succeeds whenever a directory of the
\* search list holds an executable of that name, with the path in the first
\* such directory; it fails, with the not-found error naming the binary and
\* the list, only when no directory does and all were tried.
C18_FirstExecutableCandidate ==
    binpc = "done" =>
        IF \E k \in 1..Len(binDirs) : HoldsExecutable(binDirs[k])
        THEN binRes = [path |-> Join(<<WorkDir, binDirs[FirstHolding], BinName>>),
                       err |-> <<>>]
        ELSE /\ binRes = [path |-> <<>>,
                          err |-> <<"unable to find">> \o BinName \o <<"in">>
                                    \o JoinList(binDirs)]
             /\ bi = Len(binDirs) + 1

(***************************************************************************)
(* quoteExec and execEscape: the ExecStart line of an app's unit.  A       *)
(* string is a sequence of one-character pieces.                           *)
(***************************************************************************)
MaxArgLen == 2

SingleQuote == "'"
Dollar == "$"
DoubleQuote == "\""
Backslash == "\\"

\* The characters of the arguments: a plain one and the four that one of the
\* two quoting steps touches.
ArgChars == {"a", SingleQuote, Dollar, DoubleQuote, Backslash}

ArgStrings == UNION {[1..n -> ArgChars] : n \in 0..MaxArgLen}

\* The argument vectors: none, one argument, two arguments.
ExecLists ==
    {<<>>} \cup {<<a0>> : a0 \in ArgStrings}
           \cup {<<a0, a1>> : a0 \in ArgStrings, a1 \in ArgStrings}

\* fmt.Sprintf("%q", str) on printable characters: a double-quoted Go
\* string literal, with \" for a double quote and \\ for a backslash.
RECURSIVE QuoteBody(_)
QuoteBody(str) ==
    IF str = <<>> THEN <<>>
    ELSE (IF Head(str) \in {DoubleQuote, Backslash}
          THEN <<Backslash, Head(str)>>
          ELSE <<Head(str)>>) \o QuoteBody(Tail(str))

Quote(str) == <<DoubleQuote>> \o QuoteBody(str) \o <<DoubleQuote>>

\* escapeMap of the argument with index i: character -> what is put before it.
escapeMapEveryArg(i) ==
    (SingleQuote :> Backslash) @@ (Dollar :> Dollar)

escapeMap(i) ==
    IF i > 0
    THEN (SingleQuote :> Backslash) @@ (Dollar :> Dollar)
    ELSE (SingleQuote :> Backslash)

\* re.ReplaceAllStringFunc(escArg, ...) for the class [k]: every k becomes
\* escapeMap[k] + k.
RECURSIVE ReplaceAllStringFunc(_, _, _)
ReplaceAllStringFunc(escArg, k, emap) ==
    IF escArg = <<>> THEN <<>>
    ELSE (IF Head(escArg) = k THEN <<emap[k], k>> ELSE <<Head(escArg)>>)
         \o ReplaceAllStringFunc(Tail(escArg), k, emap)

\* for k := range escapeMap, the keys taken in the order keys.
RECURSIVE RangeEscapeMap(_, _, _)
RangeEscapeMap(escArg, keys, emap) ==
    IF keys = <<>> THEN escArg
    ELSE RangeEscapeMap(ReplaceAllStringFunc(escArg, Head(keys), emap),
                        Tail(keys), emap)

\* The orders in which a range over the map m can visit its keys.
KeyOrders(m) ==
    {ks \in [1..Cardinality(DOMAIN m) -> DOMAIN m] :
        \A x, y \in 1..Len(ks) : x # y => ks[x] # ks[y]}

\* execEscape(i, str), the keys visited in the order keys.
execEscape(i, str, keys) == RangeEscapeMap(Quote(str), keys, escapeMap(i))

\* strings.Join(elems, " ") of strings.
RECURSIVE JoinStrings(_)
JoinStrings(elems) ==
    IF elems = <<>> THEN <<>>
    ELSE IF Len(elems) = 1 THEN elems[1]
    ELSE elems[1] \o <<" ">> \o JoinStrings(Tail(elems))

QuoteExecInit ==
    /\ exec \in ExecLists
    /\ qepc = "start"
    /\ argi = 0
    /\ qexec = <<>>
    /\ cmdline = <<>>
    /\ StIdle /\ SymIdle /\ CapIdle /\ PodIdle /\ NsIdle /\ UgIdle /\ BinIdle /\ ShIdle /\ RpIdle

\* quoteExec entry: panic("empty exec") or the loop.
QuoteExecCall ==
    /\ qepc = "start"
    /\ qepc' = IF Len(exec) = 0 THEN "panic" ELSE "loop"
    /\ UNCHANGED <<exec, argi, qexec, cmdline>>
    /\ UNCHANGED nonQeVars

\* One iteration of for i, arg := range exec.
QuoteExecArg ==
    /\ qepc = "loop"
    /\ argi < Len(exec)
    /\ \E keys \in KeyOrders(escapeMap(argi)) :
           qexec' = Append(qexec, execEscape(argi, exec[argi + 1], keys))
    /\ argi' = argi + 1
    /\ UNCHANGED <<exec, qepc, cmdline>>
    /\ UNCHANGED nonQeVars

\* return strings.Join(qexec, " ")
QuoteExecReturn ==
    /\ qepc = "loop"
    /\ argi = Len(exec)
    /\ cmdline' = JoinStrings(qexec)
    /\ qepc' = "done"
    /\ UNCHANGED <<exec, argi, qexec>>
    /\ UNCHANGED nonQeVars

QuoteExecNext ==
    \/ QuoteExecCall
    \/ QuoteExecArg
    \/ QuoteExecReturn

SpecQuoteExec == QuoteExecInit /\ [][QuoteExecNext]_vars

(***************************************************************************)
(* Properties of quoteExec.                                                *)
(***************************************************************************)
\* str with the piece added put before every character of chars.
RECURSIVE AddedBefore(_, _, _)
AddedBefore(str, chars, added) ==
    IF str = <<>> THEN <<>>
    ELSE (IF Head(str) \in chars THEN <<added, Head(str)>> ELSE <<Head(str)>>)
         \o AddedBefore(Tail(str), chars, added)

\* The command line whose k-th argument is the quoted argument with
\* quoteMark added before every single quote and, in every argument but
\* the first, dollarMark added before every dollar sign.
CommandLineWith(quoteMark, dollarMark) ==
    JoinStrings([k \in 1..Len(exec) |->
        AddedBefore(AddedBefore(Quote(exec[k]), {SingleQuote}, quoteMark),
                    IF k = 1 THEN {} ELSE {Dollar}, dollarMark)])

\* C19: in the command line of quoteExec every single quote of any argument
\* and every dollar sign of an argument other than the first is preceded by
\* an added backslash; the dollar signs of the first argument are left as
\* they are.
C19_BackslashBeforeQuoteAndDollar ==
    qepc = "done" => cmdline = CommandLineWith(Backslash, Backslash)

\* C19, amended: every single quote of any argument is preceded by an added
\* backslash and every dollar sign of an argument other than the first by an
\* added dollar sign; the dollar signs of the first argument are left as
\* they are.
C19_BackslashBeforeQuoteDollarDoubled ==
    qepc = "done" => cmdline = CommandLineWith(Backslash, Dollar)

Occurs(ch, str) == \E x \in 1..Len(str) : str[x] = ch

C19_Witness ==
    /\ qepc = "done"
    /\ Len(exec) = 2
    /\ Occurs(Dollar, exec[1])
    /\ Occurs(SingleQuote, exec[1])
    /\ Occurs(Dollar, exec[2])
    /\ Occurs(SingleQuote, exec[2])
    /\ cmdline = <<DoubleQuote, Dollar, Backslash, SingleQuote, DoubleQuote, " ",
                   DoubleQuote, Dollar, Dollar, Backslash, SingleQuote, DoubleQuote>>

(***************************************************************************)
(* Termination of the symlink walk.                                        *)
(***************************************************************************)
\* The symlinks s and t of the app's root lead to each other or to
\* themselves.
SymlinkCycle ==
    \/ tree[<<nP, nR, nS>>] \in {LinkNode(<<"s">>), LinkNode(<<"/", "s">>)}
    \/ /\ tree[<<nP, nR, nS>>] \in {LinkNode(<<"t">>), LinkNode(<<"/", "t">>)}
       /\ tree[<<nP, nR, nT>>] \in {LinkNode(<<"s">>), LinkNode(<<"/", "s">>)}

\* C20: EvaluateSymlinksInsideApp terminates on every input, symlink cycles
\* included: it never runs more iterations than the input path has
\* components, and while it is in its loop it is at a component of the
\* path, so that the next iteration or the return can be taken.
C20_WalkTerminates ==
    /\ wsteps <= Len(paths)
    /\ wpc = "loop" => wi = wsteps + 1 /\ wi <= Len(paths)
    /\ wpc = "return" => werr = ""

C20_Witness ==
    /\ wpc = "done"
    /\ SymlinkCycle
    /\ wpath \in {<<"/", "s">>, <<"/", "s", "/", "n">>}
    /\ wsteps = Len(paths)

(***************************************************************************)
(* The file writers under a UID range: generateSysusers, writeEnvFile,     *)
(* generateDeviceAllows, and shiftFiles which all three call.  A path is   *)
(* the sequence of its names below the root the function is given; a node  *)
(* has a kind, an owner and, for a symlink, a target.                      *)
(***************************************************************************)
\* The user the calling process creates files as.
HostOwner == 0

\* The ranges tried: shift and count zero or not, in every combination.
UidRanges == [Shift : {0, 5}, Count : {0, 7}]

ShAppName == "web"

\* path.Join(common.Stage1RootfsPath(p.Root), "usr/lib/sysusers.d")
sysusersDir == <<"usr", "lib", "sysusers.d">>

\* path.Join(..., "usr/lib/sysusers.d", ServiceUnitName(appName)+".conf")
sysusersFile == sysusersDir \o <<"web.service.conf">>

envFilePath == <<"rkt", "env", "web">>

\* filepath.Join(root, "rkt", "volumes")
rktVolumeLinksPath == <<"rkt", "volumes">>

\* filepath.Join(rktVolumeLinksPath, v.Name.String())
DeviceLink(name) == rktVolumeLinksPath \o <<name>>

Prefixes(path) == {SubSeq(path, 1, n) : n \in 1..Len(path)}

OwnedPaths ==
    Prefixes(sysusersFile) \cup Prefixes(envFilePath)
        \cup Prefixes(rktVolumeLinksPath)
        \cup {DeviceLink(name) : name \in {"dev", "data", "tmp"}}

OwnedNode(kind, owner, target) == [kind |-> kind, owner |-> owner, target |-> target]

Absent == OwnedNode("none", HostOwner, <<>>)

\* The directories there before the call: the parents of what the functions
\* write, with or without usr/lib, and with or without the directories the
\* functions make themselves.
InitialDirs ==
    { {<<"usr">>, <<"rkt">>, <<"rkt", "env">>},
      {<<"usr">>, <<"usr", "lib">>, <<"rkt">>, <<"rkt", "env">>},
      {<<"usr">>, <<"usr", "lib">>, sysusersDir, <<"rkt">>, <<"rkt", "env">>,
       rktVolumeLinksPath} }

\* A host path that is a device node, and fileutil.IsDeviceNode.
DeviceSource == <<"/", "dev", "/", "x">>

IsDeviceNode(source) == source = DeviceSource

\* The volumes and mount points generateDeviceAllows is tried on: the device
\* volume dev, the host directory data, the empty volume tmp.
DeviceVolumeLists ==
    LET dev  == { Volume("dev", "host", DeviceSource, ro, <<>>) : ro \in OptBool }
        data == Volume("data", "host", HostSource, <<>>, <<>>)
        tmp  == Volume("tmp", "empty", <<>>, <<>>, <<>>)
    IN  {<<>>, <<data, tmp>>} \cup { <<v>> : v \in dev }
                              \cup { <<data, v>> : v \in dev }

DeviceMountPointLists ==
    {<<>>}
        \cup { <<MountPoint("dev", <<"/", "d">>, ro)>> : ro \in BOOLEAN }
        \cup { <<MountPoint("data", <<"/", "s">>, FALSE),
                 MountPoint("dev", <<"/", "d">>, ro)>> : ro \in BOOLEAN }
        \cup { <<MountPoint("tmp", <<"/", "t">>, FALSE),
                 MountPoint("data", <<"/", "s">>, TRUE)>> }

\* The system calls that can be made to fail, one per run at most.
FailingCalls ==
    { <<"mkdir", sysusersDir>>, <<"write", sysusersFile>>,
      <<"chown", sysusersDir>>, <<"chown", sysusersFile>>,
      <<"write", envFilePath>>, <<"chown", envFilePath>>,
      <<"mkdir", rktVolumeLinksPath>>, <<"chown", rktVolumeLinksPath>>,
      <<"symlink", DeviceLink("dev")>> }

NoShiftResult == [devAllow |-> <<>>, err |-> ""]

\* One of the three functions is about to be called.
ShiftInit ==
    /\ shfn \in {"generateSysusers", "writeEnvFile", "generateDeviceAllows"}
    /\ \E dirs \in InitialDirs, linked \in BOOLEAN :
           ofs = [q \in OwnedPaths |->
                    IF q \in dirs THEN OwnedNode("dir", HostOwner, <<>>)
                    ELSE IF /\ q = DeviceLink("dev")
                            /\ linked
                            /\ rktVolumeLinksPath \in dirs
                            /\ shfn = "generateDeviceAllows"
                    THEN OwnedNode("link", HostOwner, <<"/", "o", "l", "d">>)
                    ELSE Absent]
    /\ uidRange \in UidRanges
    /\ failing \in {{}} \cup { {call} : call \in FailingCalls }
    /\ IF shfn = "generateDeviceAllows"
       THEN devVols \in DeviceVolumeLists /\ devMountPoints \in DeviceMountPointLists
       ELSE devVols = <<>> /\ devMountPoints = <<>>
    /\ shpc = "start"
    /\ toShift = <<>>
    /\ shi = 0
    /\ dmi = 0
    /\ devAllow = <<>>
    /\ shres = NoShiftResult
    /\ shCreated = {}
    /\ shFailed = FALSE
    /\ invocation = 1
    /\ firstReturn = <<>>
    /\ StIdle /\ SymIdle /\ CapIdle /\ PodIdle /\ NsIdle
    /\ UgIdle /\ BinIdle /\ QeIdle /\ RpIdle

\* os.MkdirAll(path, perm) from the n-th name on: the missing directories are
\* made from the top, owned by the caller.
RECURSIVE MkdirAll(_, _, _)
MkdirAll(files, path, n) ==
    IF n > Len(path) THEN [fs |-> files, made |-> {}, err |-> ""]
    ELSE LET q == SubSeq(path, 1, n)
         IN  IF files[q].kind = "dir" THEN MkdirAll(files, path, n + 1)
             ELSE IF files[q].kind # "none"
             THEN [fs |-> files, made |-> {}, err |-> "ENOTDIR"]
             ELSE IF <<"mkdir", q>> \in failing
             THEN [fs |-> files, made |-> {}, err |-> "EIO"]
             ELSE LET r == MkdirAll([files EXCEPT ![q] = OwnedNode("dir", HostOwner, <<>>)],
                                    path, n + 1)
                  IN  [r EXCEPT !.made = @ \cup {q}]

\* ioutil.WriteFile(path, data, perm): the file is created, owned by the
\* caller, or an existing one is rewritten.
WriteFile(files, path) ==
    IF <<"write", path>> \in failing \/ files[Parent(path)].kind # "dir"
    THEN [fs |-> files, made |-> {}, err |-> "EIO"]
    ELSE IF files[path].kind = "none"
    THEN [fs |-> [files EXCEPT ![path] = OwnedNode("file", HostOwner, <<>>)],
          made |-> {path}, err |-> ""]
    ELSE [fs |-> files, made |-> {}, err |-> ""]

\* os.Symlink(tgt, link)
Symlink(files, tgt, lnk) ==
    IF files[lnk].kind # "none" THEN [fs |-> files, made |-> {}, err |-> "EEXIST"]
    ELSE IF <<"symlink", lnk>> \in failing
    THEN [fs |-> files, made |-> {}, err |-> "EIO"]
    ELSE [fs |-> [files EXCEPT ![lnk] = OwnedNode("link", HostOwner, tgt)],
          made |-> {lnk}, err |-> ""]

\* No error counts as the link being there.
IsExistNever(err) == FALSE

\* os.IsExist(err)
IsExist(err) == err = "EEXIST"

\* shiftFiles: uidRange.Shift != 0 && uidRange.Count != 0
ShiftActive(r) == r.Shift # 0 /\ r.Count # 0

\* return err (return nil, err in generateDeviceAllows) after a failed call.
ShiftReturnError(err) ==
    /\ shres' = [devAllow |-> <<>>, err |-> err]
    /\ shpc' = "done"
    /\ shFailed' = TRUE

\* generateSysusers up to the call of shiftFiles: the directory and the file.
GenerateSysusersWrite ==
    /\ shfn = "generateSysusers"
    /\ shpc = "start"
    /\ LET md == MkdirAll(ofs, sysusersDir, 1)
           wr == WriteFile(md.fs, sysusersFile)
       IN  IF md.err # ""
           THEN /\ ShiftReturnError(md.err)
                /\ ofs' = md.fs
                /\ shCreated' = md.made
                /\ toShift' = <<sysusersDir>>
                /\ UNCHANGED shi
           ELSE IF wr.err # ""
           THEN /\ ShiftReturnError(wr.err)
                /\ ofs' = wr.fs
                /\ shCreated' = md.made
                /\ toShift' = <<sysusersDir, sysusersFile>>
                /\ UNCHANGED shi
           ELSE /\ ofs' = wr.fs
                /\ shCreated' = md.made \cup wr.made
                /\ toShift' = <<sysusersDir, sysusersFile>>
                /\ shi' = 1
                /\ shpc' = "shift"
                /\ UNCHANGED <<shres, shFailed>>
    /\ UNCHANGED <<uidRange, failing, devVols, devMountPoints, shfn, dmi, devAllow,
                   invocation, firstReturn>>
    /\ UNCHANGED nonShVars

\* writeEnvFile up to the call of shiftFiles: the file.
WriteEnvFileWrite ==
    /\ shfn = "writeEnvFile"
    /\ shpc = "start"
    /\ LET wr == WriteFile(ofs, envFilePath)
       IN  IF wr.err # ""
           THEN /\ ShiftReturnError(wr.err)
                /\ UNCHANGED <<ofs, shCreated, toShift, shi>>
           ELSE /\ ofs' = wr.fs
                /\ shCreated' = wr.made
                /\ toShift' = <<envFilePath>>
                /\ shi' = 1
                /\ shpc' = "shift"
                /\ UNCHANGED <<shres, shFailed>>
    /\ UNCHANGED <<uidRange, failing, devVols, devMountPoints, shfn, dmi, devAllow,
                   invocation, firstReturn>>
    /\ UNCHANGED nonShVars

\* generateDeviceAllows up to the call of shiftFiles: the staging directory.
DeviceAllowsMkdir ==
    /\ shfn = "generateDeviceAllows"
    /\ shpc = "start"
    /\ LET md == MkdirAll(ofs, rktVolumeLinksPath, 1)
       IN  /\ ofs' = md.fs
           /\ shCreated' = md.made
           /\ IF md.err # ""
              THEN /\ ShiftReturnError(md.err)
                   /\ UNCHANGED <<toShift, shi>>
              ELSE /\ toShift' = <<rktVolumeLinksPath>>
                   /\ shi' = 1
                   /\ shpc' = "shift"
                   /\ UNCHANGED <<shres, shFailed>>
    /\ UNCHANGED <<uidRange, failing, devVols, devMountPoints, shfn, dmi, devAllow,
                   invocation, firstReturn>>
    /\ UNCHANGED nonShVars

\* shiftFiles: one iteration of for _, f := range filesToShift.
ShiftFilesChown ==
    /\ shpc = "shift"
    /\ ShiftActive(uidRange)
    /\ shi <= Len(toShift)
    /\ LET f == toShift[shi]
       IN  IF <<"chown", f>> \in failing \/ ofs[f].kind = "none"
           THEN /\ ShiftReturnError("EPERM")
                /\ UNCHANGED <<ofs, shi>>
           ELSE /\ ofs' = [ofs EXCEPT ![f].owner = uidRange.Shift]
                /\ shi' = shi + 1
                /\ UNCHANGED <<shres, shpc, shFailed>>
    /\ UNCHANGED <<uidRange, failing, devVols, devMountPoints, shfn, toShift, dmi,
                   devAllow, shCreated, invocation, firstReturn>>
    /\ UNCHANGED nonShVars

\* shiftFiles: return nil, and what the caller does with it: generateSysusers
\* and writeEnvFile return nil, generateDeviceAllows enters its loop.
ShiftFilesReturn ==
    /\ shpc = "shift"
    /\ ~ShiftActive(uidRange) \/ shi > Len(toShift)
    /\ IF shfn = "generateDeviceAllows"
       THEN /\ shpc' = "mounts"
            /\ dmi' = 1
            /\ UNCHANGED shres
       ELSE /\ shpc' = "done"
            /\ shres' = NoShiftResult
            /\ UNCHANGED dmi
    /\ UNCHANGED <<ofs, uidRange, failing, devVols, devMountPoints, shfn, toShift,
                   shi, devAllow, shCreated, shFailed, invocation, firstReturn>>
    /\ UNCHANGED nonShVars

\* linkRel + " " + mode
DeviceAllowEntry(v, mountPoints) ==
    <<"/dev/.rkt", "/", v.Name, " ",
      IF IsMountReadOnly(v, mountPoints) THEN "r" ELSE "rw">>

\* generateDeviceAllows: one iteration of for _, m := range mounts.
DeviceAllowsMount ==
    /\ shpc = "mounts"
    /\ dmi <= Len(devMountPoints)
    /\ LET m    == GenerateMounts([MountPoints |-> devMountPoints])[dmi]
           v    == VolsLookup(devVols, m.Volume)
           tgt  == Join(<<RelAppRootfsPath(ShAppName), m.Path>>)
           lnk  == DeviceLink(v.Name)
           sl   == Symlink(ofs, tgt, lnk)
       IN  IF v.Kind # "host" \/ ~IsDeviceNode(v.Source)
           THEN /\ dmi' = dmi + 1
                /\ UNCHANGED <<ofs, devAllow, shres, shpc, shCreated, shFailed>>
           ELSE IF sl.err # "" /\ ~IsExist(sl.err)
           THEN /\ ShiftReturnError(sl.err)
                /\ UNCHANGED <<ofs, dmi, devAllow, shCreated>>
           ELSE /\ ofs' = sl.fs
                /\ shCreated' = shCreated \cup sl.made
                /\ devAllow' = Append(devAllow, DeviceAllowEntry(v, devMountPoints))
                /\ dmi' = dmi + 1
                /\ UNCHANGED <<shres, shpc, shFailed>>
    /\ UNCHANGED <<uidRange, failing, devVols, devMountPoints, shfn, toShift, shi,
                   invocation, firstReturn>>
    /\ UNCHANGED nonShVars

\* return devAllow, nil
DeviceAllowsReturn ==
    /\ shpc = "mounts"
    /\ dmi > Len(devMountPoints)
    /\ shres' = [devAllow |-> devAllow, err |-> ""]
    /\ shpc' = "done"
    /\ UNCHANGED <<ofs, uidRange, failing, devVols, devMountPoints, shfn, toShift,
                   shi, dmi, devAllow, shCreated, shFailed, invocation, firstReturn>>
    /\ UNCHANGED nonShVars

\* generateDeviceAllows is called again, with the same arguments, on what its
\* first call left.
DeviceAllowsAgain ==
    /\ shfn = "generateDeviceAllows"
    /\ shpc = "done"
    /\ invocation = 1
    /\ shres.err = ""
    /\ firstReturn' = [ofs |-> ofs, res |-> shres]
    /\ invocation' = 2
    /\ shpc' = "start"
    /\ toShift' = <<>>
    /\ shi' = 0
    /\ dmi' = 0
    /\ devAllow' = <<>>
    /\ shres' = NoShiftResult
    /\ shCreated' = {}
    /\ shFailed' = FALSE
    /\ UNCHANGED <<ofs, uidRange, failing, devVols, devMountPoints, shfn>>
    /\ UNCHANGED nonShVars

ShiftNext ==
    \/ GenerateSysusersWrite
    \/ WriteEnvFileWrite
    \/ DeviceAllowsMkdir
    \/ ShiftFilesChown
    \/ ShiftFilesReturn
    \/ DeviceAllowsMount
    \/ DeviceAllowsReturn
    \/ DeviceAllowsAgain

SpecShift == ShiftInit /\ [][ShiftNext]_vars

(***************************************************************************)
(* Properties of the file writers.                                         *)
(***************************************************************************)
ShiftReturned == shpc = "done"

\* The owner every path had before the first call.
OwnersUntouched == \A q \in OwnedPaths : ofs[q].owner = HostOwner

\* C21: under an active range (shift and count non-zero) the three functions
\* return success only when every file, directory and symlink they created
\* is owned by the range's shift; when a system call failed they return an
\* error; under the zero range they change no owner.
C21_ShiftedBeforeSuccess ==
    (ShiftReturned /\ invocation = 1) =>
        /\ (ShiftActive(uidRange) /\ shres.err = "") =>
               \A q \in shCreated : ofs[q].owner = uidRange.Shift
        /\ shFailed => shres.err # ""
        /\ (uidRange.Shift = 0 /\ uidRange.Count = 0) => OwnersUntouched

\* The staging symlinks.
DeviceLinks == {DeviceLink(name) : name \in {"dev", "data", "tmp"}}

\* The first call of generateDeviceAllows left the staging symlink of the
\* device volume dev, and the second call has returned.
SecondCallReturned ==
    /\ shfn = "generateDeviceAllows"
    /\ invocation = 2
    /\ ShiftReturned
    /\ firstReturn.ofs[DeviceLink("dev")].kind = "link"

\* C22: generateDeviceAllows called again when the staging symlink of a
\* device volume exists succeeds, leaves the symlink as it was and returns
\* the entries the first call returned.
C22_DeviceAllowsIdempotent ==
    SecondCallReturned =>
        /\ shres.err = ""
        /\ \A q \in DeviceLinks : ofs[q] = firstReturn.ofs[q]
        /\ shres.devAllow = firstReturn.res.devAllow

C22_Witness ==
    /\ SecondCallReturned
    /\ shres.devAllow = << <<"/dev/.rkt", "/", "dev", " ", "rw">> >>
    /\ shCreated = {}
    /\ ofs[DeviceLink("dev")].target = <<"/", "o", "/", "web", "/", "r", "/", "d">>

(***************************************************************************)
(* The status query on markers in any combination: each of the three       *)
(* markers of the app web is there or not, whatever the others are.        *)
(***************************************************************************)
AnyMarkers ==
    { [p \in MarkerPaths |->
          IF p = appInfoDir("web") /\ info THEN Marker(p, <<>>)
          ELSE IF p = appStartedFile("web") /\ started THEN Marker(p, <<>>)
          ELSE IF p = appExitedFile("web") /\ exited # <<>> THEN Marker(p, exited[1])
          ELSE NoFile] :
        info \in BOOLEAN, started \in BOOLEAN,
        exited \in {<<>>} \cup { <<c>> : c \in ExitContents } }

MarkersInit ==
    /\ podApps = << [Name |-> "web", MountPoints |-> <<>>, Isolators |-> <<>>] >>
    /\ manifest = <<"web">>
    /\ podVolumes = <<>>
    /\ disableCapabilities = FALSE
    /\ fs \in AnyMarkers
    /\ podAfterRun \in BOOLEAN
    /\ podGCTime \in {ZeroTime} \cup (IF podAfterRun THEN {GCMarkTime} ELSE {})
    /\ appExit = [a \in AppNames |-> <<>>]
    /\ pc = "idle"
    /\ filter = ""
    /\ qi = 1
    /\ app = NoApp
    /\ qerr = ""
    /\ sawAfterRun = FALSE
    /\ apps = <<>>
    /\ began = NoBegan
    /\ quiet = FALSE
    /\ lastReported = [a \in AppNames |-> <<>>]
    /\ SymIdle /\ CapIdle /\ NsIdle /\ RestIdle

SpecMarkers == MarkersInit /\ [][ListingNext]_vars

\* C23: each state is gated on its own marker only: whatever the other
\* markers are, an app whose exit-status marker exists and holds a decimal
\* status is reported exited with that status, and an app whose started
\* marker exists is reported running or exited.
C23_OwnMarkerOnly ==
    pc = "ret" =>
        LET a == app.Name
        IN  /\ \A c \in ExitCodes :
                  (ExitedExists(a) /\ ExitedHolds(a, c))
                  => (qerr = "" /\ app.State = AppStateExited
                        /\ app.ExitCode = <<c>>)
            /\ StartedExists(a) => Rank(app.State) >= Rank(AppStateRunning)

(***************************************************************************)
(* The status query racing with the end of the app and of the pod.         *)
(***************************************************************************)
\* C24: when a query reports an app exited with no exit code, the app's
\* exit-status marker exists at no moment of that query (markers are never
\* removed: it does not exist when the query returns), however the writing
\* of the marker and the pod's leaving its run phase fall between the
\* query's probes.
C24_NoCodeOnlyWithoutMarker ==
    (pc = "ret" /\ qerr = "" /\ app.State = AppStateExited /\ app.ExitCode = <<>>)
        => ~ExitedExists(app.Name)

(***************************************************************************)
(* Consistency of the App entries.                                         *)
(***************************************************************************)
\* The fields of one App entry agree with each other.
ConsistentApp(ap) ==
    /\ ap.ExitCode # <<>> => (ap.State = AppStateExited /\ ap.FinishedAt # <<>>)
    /\ ap.FinishedAt # <<>> => ap.State = AppStateExited
    /\ ap.StartedAt # <<>> => ap.CreatedAt # <<>>
    /\ ap.State = AppStateRunning => (ap.StartedAt # <<>> /\ ap.FinishedAt = <<>>)
    /\ ap.State = AppStateCreated => (ap.CreatedAt # <<>> /\ ap.StartedAt = <<>>)
    /\ ap.State = AppStateUnknown =>
           (ap.CreatedAt = <<>> /\ ap.StartedAt = <<>> /\ ap.FinishedAt = <<>>
              /\ ap.ExitCode = <<>>)

\* C25: every App entry AppsForPod returns is consistent: an exit code only
\* with the state exited and a finish time; a finish time only with the
\* state exited; a start time only with a creation time; running with a
\* start time and no finish time; created with a creation time and no start
\* time; unknown with no time and no exit code.
C25_AppEntriesConsistent ==
    \A k \in 1..Len(apps) : ConsistentApp(apps[k])

\* C25 witness: the listing has returned an entry forced to exited after the
\* app was seen running: a start time, no exit code, the mark time as finish
\* time.
C25_Witness ==
    /\ pc = "done"
    /\ \E k \in 1..Len(apps) :
           /\ apps[k].State = AppStateExited
           /\ apps[k].StartedAt # <<>>
           /\ apps[k].ExitCode = <<>>
           /\ apps[k].FinishedAt = <<GCMarkTime>>

(***************************************************************************)
(* The run-prepared command: runRunPrepared up to the exec of stage0.Run.  *)
(***************************************************************************)
\* What one run of the command can find.
RunPreparedEnvs ==
    [ Args         : {0, 1},                    \* len(args)
      PodFound     : BOOLEAN,                   \* PodFromUUIDString
      Stores       : {"ok", "store", "treestore"},  \* which NewStore fails
      State        : {"prepared", "run", "exited"}, \* the pod's state on disk
      ManifestOk   : BOOLEAN,                   \* p.PodManifest()
      Interactive  : BOOLEAN,                   \* flagInteractive
      Apps         : {1, 2},                    \* len(manifest.Apps)
      MDSRegister  : BOOLEAN,                   \* flagMDSRegister
      MdsAvailable : BOOLEAN,                   \* stage0.CheckMdsAvailability()
      ToRunOk      : BOOLEAN,                   \* p.ToRun()
      FdOk         : BOOLEAN,                   \* p.Fd()
      Overlay      : {"ok", "unsupported", "error"},  \* PathSupportsOverlay
      UsesOverlay  : BOOLEAN ]                  \* p.UsesOverlay()

RunPreparedInit ==
    /\ rpEnv \in RunPreparedEnvs
    /\ rppc = "start"
    /\ podState = rpEnv.State
    /\ rpExit = <<>>
    /\ StIdle /\ SymIdle /\ CapIdle /\ PodIdle /\ NsIdle
    /\ UgIdle /\ BinIdle /\ QeIdle /\ ShIdle

\* return 1
RunPreparedFail ==
    /\ rppc' = "returned"
    /\ rpExit' = <<1>>

\* The argument count, the pod and the two stores.
RunPreparedOpen ==
    /\ rppc = "start"
    /\ IF rpEnv.Args # 1 \/ ~rpEnv.PodFound \/ rpEnv.Stores # "ok"
       THEN RunPreparedFail
       ELSE rppc' = "state" /\ UNCHANGED rpExit
    /\ UNCHANGED <<rpEnv, podState>>
    /\ UNCHANGED nonRpVars

\* if p.State() != pkgPod.Prepared
CheckPrepared ==
    /\ rppc = "state"
    /\ IF podState # "prepared"
       THEN RunPreparedFail
       ELSE rppc' = "manifest" /\ UNCHANGED rpExit
    /\ UNCHANGED <<rpEnv, podState>>
    /\ UNCHANGED nonRpVars

\* p.PodManifest() and the interactive test.
CheckInteractive ==
    /\ rppc = "manifest"
    /\ IF ~rpEnv.ManifestOk \/ (rpEnv.Interactive /\ rpEnv.Apps > 1)
       THEN RunPreparedFail
       ELSE rppc' = "mds" /\ UNCHANGED rpExit
    /\ UNCHANGED <<rpEnv, podState>>
    /\ UNCHANGED nonRpVars

\* if flagMDSRegister { stage0.CheckMdsAvailability() }
CheckMdsAvailability ==
    /\ rppc = "mds"
    /\ IF rpEnv.MDSRegister /\ ~rpEnv.MdsAvailable
       THEN RunPreparedFail
       ELSE rppc' = "toRun" /\ UNCHANGED rpExit
    /\ UNCHANGED <<rpEnv, podState>>
    /\ UNCHANGED nonRpVars

\* The state p.ToRun() leaves a prepared pod in.
StateAfterToRun == "run"

\* if err := p.ToRun()
ToRun ==
    /\ rppc = "toRun"
    /\ IF ~rpEnv.ToRunOk
       THEN RunPreparedFail /\ UNCHANGED podState
       ELSE /\ podState' = StateAfterToRun
            /\ rppc' = "fd"
            /\ UNCHANGED rpExit
    /\ UNCHANGED rpEnv
    /\ UNCHANGED nonRpVars

\* lfd, err := p.Fd()
LockFd ==
    /\ rppc = "fd"
    /\ IF ~rpEnv.FdOk
       THEN RunPreparedFail
       ELSE rppc' = "overlay" /\ UNCHANGED rpExit
    /\ UNCHANGED <<rpEnv, podState>>
    /\ UNCHANGED nonRpVars

\* common.PathSupportsOverlay, p.UsesOverlay() and the test of both.
CheckOverlay ==
    /\ rppc = "overlay"
    /\ LET ovlOk   == rpEnv.Overlay = "ok"
           ovlPrep == rpEnv.UsesOverlay
       IN  IF rpEnv.Overlay = "error" \/ (ovlPrep /\ ~ovlOk)
           THEN RunPreparedFail
           ELSE rppc' = "run" /\ UNCHANGED rpExit
    /\ UNCHANGED <<rpEnv, podState>>
    /\ UNCHANGED nonRpVars

\* stage0.Run(rcfg, p.Path(), getDataDir()): execs, never returns.
Stage0Run ==
    /\ rppc = "run"
    /\ rppc' = "executed"
    /\ UNCHANGED <<rpEnv, podState, rpExit>>
    /\ UNCHANGED nonRpVars

RunPreparedNext ==
    \/ RunPreparedOpen
    \/ CheckPrepared
    \/ CheckInteractive
    \/ CheckMdsAvailability
    \/ ToRun
    \/ LockFd
    \/ CheckOverlay
    \/ Stage0Run

SpecRunPrepared == RunPreparedInit /\ [][RunPreparedNext]_vars

\* C26: whenever run-prepared returns a failure status instead of executing
\* the pod, the pod is in the state the command found it in: a prepared pod
\* is still prepared and the command can be run again.
C26_FailureLeavesPodPrepared ==
    rppc = "returned" => podState = rpEnv.State
====
